---- MODULE Spec2Model ----
(***************************************************************************)
(* Model of the gym-ai backend: the payment lifecycle                      *)
(* (backend/app/services/payment_service.py, backend/app/models/payment.py)*)
(* and the agents (backend/app/agents), each part with variables and a     *)
(* specification of its own.                                               *)
(*                                                                         *)
(* Every PaymentService coroutine runs in its own AsyncSession.  A         *)
(* coroutine is suspended at each `await` of a database call, so the       *)
(* database calls of different requests interleave.  One action of the     *)
(* model is one database round trip of one request together with the       *)
(* synchronous code that precedes it.  Time is counted in whole hours.     *)
(* The columns amount, currency, description, invoice_number, created_at   *)
(* and updated_at are written but never read by the service and are left   *)
(* out of the rows.                                                        *)
(***************************************************************************)
EXTENDS Integers, Sequences, FiniteSets, TLC

\* ---- bounds of the model ----
MaxPayments == 2
MaxOps == 2
MaxNow == 4
MaxReqs == 2
MaxSeedFailures == 4
TickHours == 2

\* ---- values ----
None == "None"
NoTime == -1

PENDING == "pending"
PROCESSING == "processing"
SUCCEEDED == "succeeded"
FAILED == "failed"
REFUNDED == "refunded"
CANCELED == "canceled"

PaymentStatus == {PENDING, PROCESSING, SUCCEEDED, FAILED, REFUNDED, CANCELED}

CARD == "card"
PaymentMethod == {CARD, "bank_transfer", "cash", "check", "other"}

\* inputs the requests are called with
Methods == {CARD, "cash"}
MemberIds == {1}
MemberIdInputs == {1, 2}
Metadatas == {None, "{}", "{note}"}
FailureReasons == {"card_declined"}
FailureCodes == {None}
PaymentIdInputs == 1..MaxPayments
Reqs == 1..MaxReqs

\* the retry limit of get_failed_payments_for_retry
MaxRetryAttempts == 5

VARIABLES
    payments,   \* table payments: sequence of rows, the index is Payment.id
    history,    \* table payment_history in insertion order
    members,    \* table members: stripe_customer_id per member id
    now,        \* datetime.utcnow() in hours
    req,        \* the open requests, each with its own session
    ops         \* number of requests started so far

vars == <<payments, history, members, now, req, ops>>

\* The agents (app/agents) work on their own objects and never touch the
\* payment tables; their state is held in variables of their own, and each
\* part of the model leaves the variables of the other parts unchanged.
VARIABLES
    agent_state,    \* BaseAgent.state (AgentState) of one agent object
    agent_run,      \* the run() call on that agent: position and result
    agent_clock,    \* datetime.utcnow() in seconds, as the agent reads it
    eng_members,    \* table members as MemberEngagementAgent selects it
    eng_now,        \* datetime.utcnow() in hours, as the engagement agent reads it
    eng_out,        \* what the last engagement call returned
    ops_equipment,  \* table equipment as OperationsAgent selects it
    ops_now,        \* datetime.utcnow() in hours, as the operations agent reads it
    ops_out,        \* what the last operations call returned
    fin_members,    \* table members as FinancialAgent selects it
    fin_plans,      \* table membership_plans, the index is MembershipPlan.id
    fin_now,        \* datetime.utcnow() in hours, as the financial agent reads it
    fin_out,        \* what the last financial call returned
    fac_config,     \* one FacilityConfig object
    fac_out         \* what the last FacilityConfig call returned

agentVars == <<agent_state, agent_run, agent_clock>>
engagementVars == <<eng_members, eng_now, eng_out>>
operationsVars == <<ops_equipment, ops_now, ops_out>>
financialVars == <<fin_members, fin_plans, fin_now, fin_out>>
facilityVars == <<fac_config, fac_out>>

nonPaymentVars ==
    <<agentVars, engagementVars, operationsVars, financialVars, facilityVars>>
nonAgentVars ==
    <<vars, engagementVars, operationsVars, financialVars, facilityVars>>
nonEngagementVars ==
    <<vars, agentVars, operationsVars, financialVars, facilityVars>>
nonOperationsVars ==
    <<vars, agentVars, engagementVars, financialVars, facilityVars>>
nonFinancialVars ==
    <<vars, agentVars, engagementVars, operationsVars, facilityVars>>
nonFacilityVars ==
    <<vars, agentVars, engagementVars, operationsVars, financialVars>>

NoRow ==
    [member_id |-> 0, status |-> None, payment_method |-> None,
     stripe_payment_intent_id |-> None, failure_reason |-> None,
     failure_code |-> None, retry_count |-> 0, next_retry_at |-> NoTime,
     paid_at |-> NoTime, refunded_at |-> NoTime]

\* a request slot with no call in progress
IdleReq ==
    [op |-> None, pc |-> "idle", payment_id |-> 0, new_status |-> None,
     failure_reason |-> None, failure_code |-> None,
     member_id |-> 0, payment_method |-> None, auto_process |-> FALSE,
     customer_id |-> None, old_status |-> None, row |-> NoRow,
     result |-> None, retryable |-> <<>>]

\* Payment(...) as constructed by create_payment, with the column defaults
NewPayment(member_id, payment_method) ==
    [member_id |-> member_id,
     status |-> PENDING,
     payment_method |-> payment_method,
     stripe_payment_intent_id |-> None,
     failure_reason |-> None,
     failure_code |-> None,
     retry_count |-> 0,
     next_retry_at |-> NoTime,
     paid_at |-> NoTime,
     refunded_at |-> NoTime]

\* json.dumps(metadata) if metadata else None : None and {} are both falsy
MetadataColumn(metadata) ==
    IF metadata = None \/ metadata = "{}" THEN None ELSE metadata

\* PaymentHistory(...) ; db.add(history_entry) ; db.commit()
add_payment_history(h, payment_id, event_type, previous_status, new_status, metadata) ==
    Append(h, [payment_id |-> payment_id,
               event_type |-> event_type,
               previous_status |-> previous_status,
               new_status |-> new_status,
               metadata |-> MetadataColumn(metadata)])

\* The unit of work writes a column only when the attribute has a net
\* change against the value the session loaded.
FlushColumn(stored, loaded, assigned) ==
    IF assigned = loaded THEN stored ELSE assigned

\* get_payment: select(Payment).where(Payment.id == payment_id)
PaymentExists(payment_id) == payment_id \in DOMAIN payments

\* the model starts at most MaxOps calls; a call takes the first free slot
CanStart(r) ==
    /\ ops < MaxOps
    /\ req[r].pc = "idle"
    /\ \A q \in Reqs : q < r => req[q].pc # "idle"

\* ------------------------------------------------------------------------
\* update_payment_status
\* ------------------------------------------------------------------------

\* lines 157-161: the call arrives and get_payment runs.  new_status and
\* metadata are arguments of the call; each is drawn in the step that
\* first reads it.
UpdateGetPayment(r, payment_id) ==
    /\ CanStart(r)
    /\ ops' = ops + 1
    /\ req' = [req EXCEPT ![r] =
            IF PaymentExists(payment_id)
            THEN [IdleReq EXCEPT !.op = "update_payment_status", !.pc = "commit",
                                 !.payment_id = payment_id, !.row = payments[payment_id]]
            ELSE [IdleReq EXCEPT !.op = "update_payment_status", !.pc = "done",
                                 !.payment_id = payment_id, !.result = None]]
    /\ UNCHANGED <<payments, history, members, now>>
    /\ UNCHANGED nonPaymentVars

\* PaidAtFor without line 168: paid_at is never assigned
PaidAtForUnset(new_status, loaded, t) == loaded.paid_at

\* lines 167-170: the timestamp that goes with the new status
PaidAtFor(new_status, loaded, t) ==
    IF new_status = SUCCEEDED THEN t ELSE loaded.paid_at

RefundedAtFor(new_status, loaded, t) ==
    IF new_status = REFUNDED THEN t ELSE loaded.refunded_at

\* lines 163-170 applied to the object the session holds
UpdatedRow(loaded, new_status, t) ==
    [loaded EXCEPT !.status = new_status,
                   !.paid_at = PaidAtFor(new_status, loaded, t),
                   !.refunded_at = RefundedAtFor(new_status, loaded, t)]

\* the UPDATE a commit flushes: the columns with a net change
FlushRow(stored, loaded, assigned) ==
    [stored EXCEPT
        !.status = FlushColumn(stored.status, loaded.status, assigned.status),
        !.failure_reason = FlushColumn(stored.failure_reason, loaded.failure_reason, assigned.failure_reason),
        !.failure_code = FlushColumn(stored.failure_code, loaded.failure_code, assigned.failure_code),
        !.retry_count = FlushColumn(stored.retry_count, loaded.retry_count, assigned.retry_count),
        !.next_retry_at = FlushColumn(stored.next_retry_at, loaded.next_retry_at, assigned.next_retry_at),
        !.paid_at = FlushColumn(stored.paid_at, loaded.paid_at, assigned.paid_at),
        !.refunded_at = FlushColumn(stored.refunded_at, loaded.refunded_at, assigned.refunded_at)]

\* lines 163-172: mutate the loaded object and commit
UpdateCommit(r, new_status) ==
    /\ req[r].op = "update_payment_status"
    /\ req[r].pc = "commit"
    /\ LET id == req[r].payment_id
           loaded == req[r].row
           assigned == UpdatedRow(loaded, new_status, now)
       IN /\ payments' = [payments EXCEPT ![id] = FlushRow(payments[id], loaded, assigned)]
          /\ req' = [req EXCEPT ![r].pc = "refresh",
                                ![r].new_status = new_status,
                                ![r].old_status = loaded.status,
                                ![r].row = assigned]
    /\ UNCHANGED <<history, members, now, ops>>
    /\ UNCHANGED nonPaymentVars

\* line 173: db.refresh(payment)
UpdateRefresh(r) ==
    /\ req[r].op = "update_payment_status"
    /\ req[r].pc = "refresh"
    /\ req' = [req EXCEPT ![r].pc = "add_history",
                          ![r].row = payments[req[r].payment_id]]
    /\ UNCHANGED <<payments, history, members, now, ops>>
    /\ UNCHANGED nonPaymentVars

StatusChangedEvent(new_status) == "status_changed_to_" \o new_status

\* lines 176-186: the history entry, then return payment
UpdateAddHistory(r, metadata) ==
    /\ req[r].op = "update_payment_status"
    /\ req[r].pc = "add_history"
    /\ history' = add_payment_history(history, req[r].payment_id,
                                      StatusChangedEvent(req[r].new_status),
                                      req[r].old_status, req[r].new_status,
                                      metadata)
    /\ req' = [req EXCEPT ![r].pc = "done", ![r].result = "payment"]
    /\ UNCHANGED <<payments, members, now, ops>>
    /\ UNCHANGED nonPaymentVars

\* ------------------------------------------------------------------------
\* process_failed_payment
\* ------------------------------------------------------------------------

\* FailGetPayment without the check of lines 198-199: payment is None and
\* line 201 raises
FailGetPaymentUnchecked(r, payment_id, failure_reason, failure_code) ==
    /\ CanStart(r)
    /\ ops' = ops + 1
    /\ req' = [req EXCEPT ![r] =
            IF PaymentExists(payment_id)
            THEN [IdleReq EXCEPT !.op = "process_failed_payment", !.pc = "commit",
                                 !.payment_id = payment_id,
                                 !.failure_reason = failure_reason,
                                 !.failure_code = failure_code,
                                 !.row = payments[payment_id]]
            ELSE [IdleReq EXCEPT !.op = "process_failed_payment", !.pc = "done",
                                 !.payment_id = payment_id,
                                 !.failure_reason = failure_reason,
                                 !.failure_code = failure_code,
                                 !.result = "raised"]]
    /\ UNCHANGED <<payments, history, members, now>>
    /\ UNCHANGED nonPaymentVars

\* lines 196-199
FailGetPayment(r, payment_id, failure_reason, failure_code) ==
    /\ CanStart(r)
    /\ ops' = ops + 1
    /\ req' = [req EXCEPT ![r] =
            IF PaymentExists(payment_id)
            THEN [IdleReq EXCEPT !.op = "process_failed_payment", !.pc = "commit",
                                 !.payment_id = payment_id,
                                 !.failure_reason = failure_reason,
                                 !.failure_code = failure_code,
                                 !.row = payments[payment_id]]
            ELSE [IdleReq EXCEPT !.op = "process_failed_payment", !.pc = "done",
                                 !.payment_id = payment_id,
                                 !.failure_reason = failure_reason,
                                 !.failure_code = failure_code,
                                 !.result = None]]
    /\ UNCHANGED <<payments, history, members, now>>
    /\ UNCHANGED nonPaymentVars

\* RetryDelayHours with * written for ** in line 207
RetryDelayHoursLinear(retry_count) == 2 * retry_count

\* line 207: retry_delay_hours = 2 ** payment.retry_count
RetryDelayHours(retry_count) == 2 ^ retry_count

\* line 204: payment.retry_count += 1
NextRetryCount(retry_count) == retry_count + 1

\* lines 201-208 applied to the object the session holds
FailedRow(loaded, failure_reason, failure_code, t) ==
    [loaded EXCEPT !.status = FAILED,
                   !.failure_reason = failure_reason,
                   !.failure_code = failure_code,
                   !.retry_count = NextRetryCount(loaded.retry_count),
                   !.next_retry_at = t + RetryDelayHours(NextRetryCount(loaded.retry_count))]

\* lines 201-210: mutate the loaded object and commit
FailCommit(r) ==
    /\ req[r].op = "process_failed_payment"
    /\ req[r].pc = "commit"
    /\ LET id == req[r].payment_id
           loaded == req[r].row
           assigned == FailedRow(loaded, req[r].failure_reason, req[r].failure_code, now)
       IN /\ payments' = [payments EXCEPT ![id] = FlushRow(payments[id], loaded, assigned)]
          /\ req' = [req EXCEPT ![r].pc = "refresh",
                                ![r].old_status = loaded.status,
                                ![r].row = assigned]
    /\ UNCHANGED <<history, members, now, ops>>
    /\ UNCHANGED nonPaymentVars

\* line 211: db.refresh(payment)
FailRefresh(r) ==
    /\ req[r].op = "process_failed_payment"
    /\ req[r].pc = "refresh"
    /\ req' = [req EXCEPT ![r].pc = "add_history",
                          ![r].row = payments[req[r].payment_id]]
    /\ UNCHANGED <<payments, history, members, now, ops>>
    /\ UNCHANGED nonPaymentVars

\* the metadata dict of lines 220: never empty
FailureMetadata(failure_reason, failure_code) ==
    "{failure_reason:" \o failure_reason \o ",failure_code:" \o failure_code \o "}"

\* lines 214-226
FailAddHistory(r) ==
    /\ req[r].op = "process_failed_payment"
    /\ req[r].pc = "add_history"
    /\ history' = add_payment_history(history, req[r].payment_id,
                                      "payment_failed", None, FAILED,
                                      FailureMetadata(req[r].failure_reason,
                                                      req[r].failure_code))
    /\ req' = [req EXCEPT ![r].pc = "done", ![r].result = "payment"]
    /\ UNCHANGED <<payments, members, now, ops>>
    /\ UNCHANGED nonPaymentVars

\* The database after a serial run at hour 0: member 1 has a cash payment
\* that was created and then failed n times and, when n > 0, a second one
\* that was created after that and failed once.
RECURSIVE SeedFirst(_)
SeedFirst(n) ==
    IF n = 0 THEN NewPayment(1, "cash")
    ELSE FailedRow(SeedFirst(n - 1), "card_declined", None, 0)

SeedPayments(n) ==
    IF n = 0 THEN <<SeedFirst(0)>>
    ELSE <<SeedFirst(n), FailedRow(NewPayment(1, "cash"), "card_declined", None, 0)>>

RECURSIVE SeedFirstHistory(_)
SeedFirstHistory(n) ==
    IF n = 0 THEN add_payment_history(<<>>, 1, "created", None, PENDING, None)
    ELSE add_payment_history(SeedFirstHistory(n - 1), 1, "payment_failed", None, FAILED,
                             FailureMetadata("card_declined", None))

SeedHistory(n) ==
    IF n = 0 THEN SeedFirstHistory(0)
    ELSE add_payment_history(
             add_payment_history(SeedFirstHistory(n), 2, "created", None, PENDING, None),
             2, "payment_failed", None, FAILED, FailureMetadata("card_declined", None))

Init ==
    /\ \/ payments = <<>> /\ history = <<>>
       \/ \E n \in 0..MaxSeedFailures :
             payments = SeedPayments(n) /\ history = SeedHistory(n)
    /\ members = [m \in MemberIds |-> None]
    /\ now = 0
    /\ req = [r \in Reqs |-> IdleReq]
    /\ ops = 0

\* ------------------------------------------------------------------------
\* create_payment
\* ------------------------------------------------------------------------

\* payments being created by calls that have not inserted their row yet
CreatesInFlight ==
    Cardinality({q \in Reqs : req[q].op = "create_payment"
                              /\ req[q].pc \in {"after_member", "insert"}})

\* lines 49-56: the call arrives and the member is selected
CreateGetMember(r, member_id, payment_method, auto_process) ==
    /\ CanStart(r)
    /\ Len(payments) + CreatesInFlight < MaxPayments
    /\ ops' = ops + 1
    /\ req' = [req EXCEPT ![r] =
            IF member_id \in DOMAIN members
            THEN [IdleReq EXCEPT !.op = "create_payment", !.pc = "after_member",
                                 !.member_id = member_id,
                                 !.payment_method = payment_method,
                                 !.auto_process = auto_process,
                                 !.customer_id = members[member_id],
                                 !.row = NewPayment(member_id, payment_method)]
            ELSE [IdleReq EXCEPT !.op = "create_payment", !.pc = "done",
                                 !.member_id = member_id,
                                 !.payment_method = payment_method,
                                 !.auto_process = auto_process,
                                 !.result = None]]
    /\ UNCHANGED <<payments, history, members, now>>
    /\ UNCHANGED nonPaymentVars

\* line 70
WantsIntent(q) == q.payment_method = CARD /\ q.auto_process

\* lines 72-85: no customer yet, stripe creates one, the member is committed
CreateCustomerCommit(r) ==
    /\ req[r].op = "create_payment"
    /\ req[r].pc = "after_member"
    /\ WantsIntent(req[r])
    /\ req[r].customer_id = None
    /\ members' = [members EXCEPT ![req[r].member_id] = "cus"]
    /\ req' = [req EXCEPT ![r].pc = "insert", ![r].customer_id = "cus"]
    /\ UNCHANGED <<payments, history, now, ops>>
    /\ UNCHANGED nonPaymentVars

\* lines 90-103: the payment as it stands when it is added to the session;
\* intent is the outcome of stripe_client.create_payment_intent
PaymentToInsert(q, intent) ==
    IF WantsIntent(q) /\ q.customer_id # None /\ intent # None
    THEN [q.row EXCEPT !.stripe_payment_intent_id = intent, !.status = PROCESSING]
    ELSE q.row

\* lines 86-106: (customer creation failed, or was not needed), the intent is
\* requested when there is a customer, and the payment is inserted
CreateInsert(r, intent) ==
    /\ req[r].op = "create_payment"
    /\ req[r].pc \in {"after_member", "insert"}
    /\ LET row == PaymentToInsert(req[r], intent)
       IN /\ payments' = Append(payments, row)
          /\ req' = [req EXCEPT ![r].pc = "refresh",
                                ![r].payment_id = Len(payments) + 1,
                                ![r].row = row]
    /\ UNCHANGED <<history, members, now, ops>>
    /\ UNCHANGED nonPaymentVars

\* line 107: db.refresh(payment)
CreateRefresh(r) ==
    /\ req[r].op = "create_payment"
    /\ req[r].pc = "refresh"
    /\ req' = [req EXCEPT ![r].pc = "add_history",
                          ![r].row = payments[req[r].payment_id]]
    /\ UNCHANGED <<payments, history, members, now, ops>>
    /\ UNCHANGED nonPaymentVars

\* lines 110-119
CreateAddHistory(r) ==
    /\ req[r].op = "create_payment"
    /\ req[r].pc = "add_history"
    /\ history' = add_payment_history(history, req[r].payment_id,
                                      "created", None, PENDING, None)
    /\ req' = [req EXCEPT ![r].pc = "done", ![r].result = "payment"]
    /\ UNCHANGED <<payments, members, now, ops>>
    /\ UNCHANGED nonPaymentVars

\* ------------------------------------------------------------------------
\* get_failed_payments_for_retry
\* ------------------------------------------------------------------------

\* lines 257-261: the WHERE clause; a NULL next_retry_at compares as unknown
RetryWhere(p, t) ==
    /\ p.status = FAILED
    /\ p.retry_count < MaxRetryAttempts
    /\ p.next_retry_at # NoTime
    /\ p.next_retry_at <= t

\* RetryOrderKey with .desc() added in line 262
RetryOrderKeyDescending(p) == 0 - p.next_retry_at

\* line 262: the sort key of a row
RetryOrderKey(p) == p.next_retry_at

\* the rows in an order the table scan may deliver them
ScanOrders(ids) ==
    {f \in [1..Cardinality(ids) -> ids] : \A i, j \in DOMAIN f : i # j => f[i] # f[j]}

RECURSIVE InsertByKey(_, _, _)
\* id goes before the first element with a larger key
InsertByKey(sorted, id, table) ==
    IF sorted = <<>> THEN <<id>>
    ELSE IF RetryOrderKey(table[id]) < RetryOrderKey(table[Head(sorted)])
         THEN <<id>> \o sorted
         ELSE <<Head(sorted)>> \o InsertByKey(Tail(sorted), id, table)

RECURSIVE OrderBy(_, _)
\* ORDER BY next_retry_at (ascending) of the scanned rows
OrderBy(scan, table) ==
    IF scan = <<>> THEN <<>>
    ELSE InsertByKey(OrderBy(SubSeq(scan, 1, Len(scan) - 1), table), scan[Len(scan)], table)

\* the result of the query for one scan order
RetryQuery(scan, table, t) ==
    OrderBy(SelectSeq(scan, LAMBDA id : RetryWhere(table[id], t)), table)

\* lines 254-264
GetFailedPaymentsForRetry(r) ==
    /\ CanStart(r)
    /\ ops' = ops + 1
    /\ \E scan \in ScanOrders(DOMAIN payments) :
          req' = [req EXCEPT ![r] =
                    [IdleReq EXCEPT !.op = "get_failed_payments_for_retry",
                                    !.pc = "done", !.result = "list",
                                    !.retryable = RetryQuery(scan, payments, now)]]
    /\ UNCHANGED <<payments, history, members, now>>
    /\ UNCHANGED nonPaymentVars

\* ------------------------------------------------------------------------
\* the environment of the calls
\* ------------------------------------------------------------------------

\* An awaited database call raises, or the task is cancelled while it is
\* suspended: the pending work of the session is lost.  create_payment
\* catches the exception, rolls back and returns None (lines 121-124, also
\* reached when member.user or a stripe call raises); the other two let it
\* propagate.
AwaitRaises(r) ==
    /\ req[r].pc \in {"after_member", "insert", "commit", "refresh", "add_history"}
    /\ req' = [req EXCEPT ![r].pc = "done",
                          ![r].result = IF req[r].op = "create_payment"
                                        THEN None ELSE "raised"]
    /\ UNCHANGED <<payments, history, members, now, ops>>
    /\ UNCHANGED nonPaymentVars

\* the caller takes the outcome; the session is closed
Return(r) ==
    /\ req[r].pc = "done"
    /\ req' = [req EXCEPT ![r] = IdleReq]
    /\ UNCHANGED <<payments, history, members, now, ops>>
    /\ UNCHANGED nonPaymentVars

\* time passes
Tick ==
    /\ now + TickHours <= MaxNow
    /\ now' = now + TickHours
    /\ UNCHANGED <<payments, history, members, req, ops>>
    /\ UNCHANGED nonPaymentVars

Next ==
    \/ \E r \in Reqs, id \in PaymentIdInputs : UpdateGetPayment(r, id)
    \/ \E r \in Reqs, s \in PaymentStatus : UpdateCommit(r, s)
    \/ \E r \in Reqs : UpdateRefresh(r)
    \/ \E r \in Reqs, md \in Metadatas : UpdateAddHistory(r, md)
    \/ \E r \in Reqs, id \in PaymentIdInputs, fr \in FailureReasons, fc \in FailureCodes :
          FailGetPayment(r, id, fr, fc)
    \/ \E r \in Reqs : FailCommit(r)
    \/ \E r \in Reqs : FailRefresh(r)
    \/ \E r \in Reqs : FailAddHistory(r)
    \/ \E r \in Reqs, m \in MemberIdInputs, pm \in Methods, ap \in BOOLEAN :
          CreateGetMember(r, m, pm, ap)
    \/ \E r \in Reqs : CreateCustomerCommit(r)
    \/ \E r \in Reqs, intent \in {None, "pi"} : CreateInsert(r, intent)
    \/ \E r \in Reqs : CreateRefresh(r)
    \/ \E r \in Reqs : CreateAddHistory(r)
    \/ \E r \in Reqs : GetFailedPaymentsForRetry(r)
    \/ \E r \in Reqs : AwaitRaises(r)
    \/ \E r \in Reqs : Return(r)
    \/ Tick

\* ------------------------------------------------------------------------
\* BaseAgent.run  (app/agents/base/agent.py, app/agents/base/state.py)
\* ------------------------------------------------------------------------

MaxRuns == 2            \* run() calls made on the agent object
MaxWorkSteps == 2       \* awaited sub-operations inside execute()
MaxAgentClock == 600    \* seconds the model lets pass
AgentTickSeconds == 150 \* one step of the clock

\* AgentStatus (FAILED = "failed" is the same string as PaymentStatus.FAILED)
IDLE == "idle"
RUNNING == "running"
COMPLETED == "completed"
PAUSED == "paused"
AgentStatus == {IDLE, RUNNING, COMPLETED, FAILED, PAUSED}

\* AgentType: the first three have a class in the repository, whose
\* execute() wraps all its work in try/except Exception.  health_wellness
\* has none: it stands for a subclass of the abstract BaseAgent whose
\* execute() lets an exception escape, the case run() handles itself.
AgentType == {"member_engagement", "operations", "financial", "health_wellness"}

ExecuteCatches(agent_type) ==
    agent_type \in {"member_engagement", "operations", "financial"}

\* ai_settings.AGENT_TIMEOUT, in seconds
AGENT_TIMEOUT == 300

\* str(e) of the exceptions the work of an agent may raise
ExceptionMessages == {"connection refused", "division by zero"}

\* the two messages run() writes on a timeout
StateTimeoutMessage == "Agent execution timed out"
ResultTimeoutMessage == "Execution timed out"

\* AgentState(agent_type=agent_type) as built by BaseAgent.__init__
NewAgentState(agent_type) ==
    [agent_type |-> agent_type, status |-> IDLE, errors |-> <<>>,
     started_at |-> NoTime, completed_at |-> NoTime]

\* AgentResult(...); execution_time has the default 0.0 when it is not passed
AgentResult(status, success, errors, execution_time) ==
    [status |-> status, success |-> success, errors |-> errors,
     execution_time |-> execution_time]

DefaultExecutionTime == 0

NoResult == AgentResult(None, FALSE, <<>>, DefaultExecutionTime)

\* no run() call in progress
IdleRun ==
    [pc |-> "idle", runs |-> 0, start_time |-> NoTime, steps |-> 0,
     raised |-> None, result |-> NoResult]

\* asyncio.wait_for has not reached its timeout yet
WithinTimeout == agent_clock - agent_state.started_at < AGENT_TIMEOUT

\* lines 43-52: run() marks the state running and starts execute(), whose
\* first statement reads start_time
Run ==
    /\ agent_run.pc = "idle"
    /\ agent_run.runs < MaxRuns
    /\ agent_state' = [agent_state EXCEPT !.status = RUNNING,
                                          !.started_at = agent_clock]
    /\ agent_run' = [agent_run EXCEPT !.pc = "execute",
                                      !.runs = agent_run.runs + 1,
                                      !.start_time = agent_clock,
                                      !.steps = 0,
                                      !.raised = None,
                                      !.result = NoResult]
    /\ UNCHANGED agent_clock
    /\ UNCHANGED nonAgentVars

\* one awaited sub-operation of execute() completes
ExecuteAwait ==
    /\ agent_run.pc = "execute"
    /\ WithinTimeout
    /\ agent_run.steps < MaxWorkSteps
    /\ agent_run' = [agent_run EXCEPT !.steps = agent_run.steps + 1]
    /\ UNCHANGED <<agent_state, agent_clock>>
    /\ UNCHANGED nonAgentVars

\* execute() returns its result (member_engagement_agent.py lines 48-58,
\* likewise the other agents) and run() records completion (lines 56-59)
ExecuteReturns ==
    /\ agent_run.pc = "execute"
    /\ WithinTimeout
    /\ agent_run.steps = MaxWorkSteps
    /\ agent_state' = [agent_state EXCEPT !.status = COMPLETED,
                                          !.completed_at = agent_clock]
    /\ agent_run' = [agent_run EXCEPT
            !.pc = "returned",
            !.result = AgentResult(COMPLETED, TRUE, <<>>,
                                   agent_clock - agent_run.start_time)]
    /\ UNCHANGED agent_clock
    /\ UNCHANGED nonAgentVars

\* a sub-operation raises e inside the try of execute(): execute() catches
\* it and returns a failed result (financial_agent.py lines 60-68, likewise
\* the other agents); for run() that is a normal return (lines 56-59)
ExecuteRaisesCaught(e) ==
    /\ agent_run.pc = "execute"
    /\ WithinTimeout
    /\ agent_run.steps < MaxWorkSteps
    /\ ExecuteCatches(agent_state.agent_type)
    /\ agent_state' = [agent_state EXCEPT !.status = COMPLETED,
                                          !.completed_at = agent_clock]
    /\ agent_run' = [agent_run EXCEPT
            !.pc = "returned",
            !.raised = e,
            !.result = AgentResult(FAILED, FALSE, <<e>>,
                                   agent_clock - agent_run.start_time)]
    /\ UNCHANGED agent_clock
    /\ UNCHANGED nonAgentVars

\* execute() lets e escape: run() lines 72-81
ExecuteRaises(e) ==
    /\ agent_run.pc = "execute"
    /\ WithinTimeout
    /\ agent_run.steps < MaxWorkSteps
    /\ ~ExecuteCatches(agent_state.agent_type)
    /\ agent_state' = [agent_state EXCEPT !.status = FAILED,
                                          !.errors = Append(agent_state.errors, e)]
    /\ agent_run' = [agent_run EXCEPT
            !.pc = "returned",
            !.raised = e,
            !.result = AgentResult(FAILED, FALSE, <<e>>, DefaultExecutionTime)]
    /\ UNCHANGED agent_clock
    /\ UNCHANGED nonAgentVars

\* asyncio.wait_for cancels execute() and raises TimeoutError: lines 61-70
Timeout ==
    /\ agent_run.pc = "execute"
    /\ ~WithinTimeout
    /\ agent_state' = [agent_state EXCEPT
            !.status = FAILED,
            !.errors = Append(agent_state.errors, StateTimeoutMessage)]
    /\ agent_run' = [agent_run EXCEPT
            !.pc = "returned",
            !.result = AgentResult(FAILED, FALSE, <<ResultTimeoutMessage>>,
                                   DefaultExecutionTime)]
    /\ UNCHANGED agent_clock
    /\ UNCHANGED nonAgentVars

\* the caller has the result; the agent object stays as it is
RunReturned ==
    /\ agent_run.pc = "returned"
    /\ agent_run' = [agent_run EXCEPT !.pc = "idle"]
    /\ UNCHANGED <<agent_state, agent_clock>>
    /\ UNCHANGED nonAgentVars

\* time passes
AgentTick ==
    /\ agent_clock + AgentTickSeconds <= MaxAgentClock
    /\ agent_clock' = agent_clock + AgentTickSeconds
    /\ UNCHANGED <<agent_state, agent_run>>
    /\ UNCHANGED nonAgentVars

\* an agent object right after construction
AgentInit ==
    /\ \E t \in AgentType : agent_state = NewAgentState(t)
    /\ agent_run = IdleRun
    /\ agent_clock = 0

\* no agent is at work
AgentQuiet ==
    /\ agent_state = NewAgentState("financial")
    /\ agent_run = IdleRun
    /\ agent_clock = 0

AgentNext ==
    \/ Run
    \/ ExecuteAwait
    \/ ExecuteReturns
    \/ \E e \in ExceptionMessages : ExecuteRaisesCaught(e)
    \/ \E e \in ExceptionMessages : ExecuteRaises(e)
    \/ Timeout
    \/ RunReturned
    \/ AgentTick

\* ------------------------------------------------------------------------
\* MemberEngagementAgent  (app/agents/engagement/member_engagement_agent.py)
\* ------------------------------------------------------------------------
\* Times are hours, dates are days (hour \div 24).  Scores are held in
\* hundredths (0.4 is 40): the weights of the code are multiples of 0.05,
\* and Python's doubles give sums that are the nearest double of these
\* decimals or one unit in the last place off (0.4 + 0.15 + 0.15 is
\* 0.7000000000000001), never across 0.4, 0.6, 0.7, 0.8 or 1.0, so every
\* comparison of the code falls as it does on the hundredths.

MaxEngMembers == 2      \* rows of the members table
EngStartHour == 400     \* utcnow() when the model starts
MaxEngHour == 412       \* the clock stops here
EngTickHours == 12      \* one step of the clock

\* MembershipStatus
ACTIVE == "active"
MembershipStatus == {ACTIVE, "expired", "cancelled", "suspended"}

\* ai_settings.CHURN_PREDICTION_THRESHOLD, 0.7
CHURN_PREDICTION_THRESHOLD == 70

\* timedelta.days and datetime.date(): whole days, rounded down
HoursPerDay == 24
TimedeltaDays(hours) == hours \div HoursPerDay
DateOf(t) == t \div HoursPerDay

\* the strings of _get_retention_recommendation
URGENT == "URGENT: Immediate personal outreach required"
HIGH == "HIGH: Send personalized retention offer"
MEDIUM == "MEDIUM: Automated engagement campaign"
LOW == "LOW: Standard member nurturing"

\* lines 152-161, factor 1
RecencyRiskInclusive(member, t) ==
    IF member.last_check_in # NoTime
    THEN IF TimedeltaDays(t - member.last_check_in) >= 14 THEN 40
         ELSE IF TimedeltaDays(t - member.last_check_in) > 7 THEN 20
         ELSE 0
    ELSE 40

RecencyRisk(member, t) ==
    IF member.last_check_in # NoTime
    THEN IF TimedeltaDays(t - member.last_check_in) > 14 THEN 40
         ELSE IF TimedeltaDays(t - member.last_check_in) > 7 THEN 20
         ELSE 0
    ELSE 40

\* lines 164-167, factor 2
FrequencyRisk(member) ==
    IF member.total_check_ins < 5 THEN 30
    ELSE IF member.total_check_ins < 10 THEN 15
    ELSE 0

\* lines 170-177, factor 3
ExpiryRisk(member, t) ==
    IF member.membership_end_date # NoTime
    THEN IF member.membership_end_date - DateOf(t) < 7 THEN 30
         ELSE IF member.membership_end_date - DateOf(t) < 14 THEN 15
         ELSE 0
    ELSE 0

MinOf(a, b) == IF a <= b THEN a ELSE b

\* lines 149-186: risk_score starts at 0.0, each factor adds to it, and the
\* result is min(risk_score, 1.0)
predict_churn_risk(member, t) ==
    LET after_recency == 0 + RecencyRisk(member, t)
        after_frequency == after_recency + FrequencyRisk(member)
        after_expiry == after_frequency + ExpiryRisk(member, t)
    IN MinOf(after_expiry, 100)

\* lines 305-314
get_retention_recommendation_strict(risk_score) ==
    IF risk_score > 80 THEN URGENT
    ELSE IF risk_score > 60 THEN HIGH
    ELSE IF risk_score > 40 THEN MEDIUM
    ELSE LOW

get_retention_recommendation(risk_score) ==
    IF risk_score >= 80 THEN URGENT
    ELSE IF risk_score >= 60 THEN HIGH
    ELSE IF risk_score >= 40 THEN MEDIUM
    ELSE LOW

\* lines 284-303: _generate_member_insights
generate_member_insights(member, t) ==
    (IF member.total_check_ins < 5 THEN <<"Low engagement">> ELSE <<>>)
    \o (IF member.last_check_in # NoTime
           /\ TimedeltaDays(t - member.last_check_in) > 14
        THEN <<"Inactive">> ELSE <<>>)
    \o (IF member.membership_end_date # NoTime
           /\ member.membership_end_date - DateOf(t) < 14
        THEN <<"Membership expiring">> ELSE <<>>)

\* line 118
MeetsThresholdStrict(risk_score) == risk_score > CHURN_PREDICTION_THRESHOLD

MeetsThreshold(risk_score) == risk_score >= CHURN_PREDICTION_THRESHOLD

\* lines 105-133: the rows with membership_status ACTIVE are selected, each is
\* scored, and those at or over the threshold are appended in row order
RECURSIVE AtRiskFrom(_, _, _)
AtRiskFrom(rows, i, t) ==
    IF i > Len(rows) THEN <<>>
    ELSE LET member == rows[i]
             risk_score == predict_churn_risk(member, t)
             rest == AtRiskFrom(rows, i + 1, t)
         IN IF member.membership_status = ACTIVE /\ MeetsThreshold(risk_score)
            THEN <<[member_id |-> i,
                    risk_score |-> risk_score,
                    last_check_in |-> member.last_check_in,
                    total_check_ins |-> member.total_check_ins]>> \o rest
            ELSE rest

\* nothing returned yet
NoEngOut ==
    [op |-> None, at |-> NoTime, member_id |-> 0, error |-> None,
     churn_risk |-> 0, insights |-> <<>>, recommendation |-> None,
     at_risk |-> <<>>, count |-> 0]

\* lines 70-94: analyze({"member_id": member_id})
Analyze(member_id) ==
    /\ eng_out' =
         IF member_id = 0
         THEN [NoEngOut EXCEPT !.op = "analyze", !.at = eng_now,
                               !.error = "member_id is required"]
         ELSE IF member_id \notin DOMAIN eng_members
         THEN [NoEngOut EXCEPT !.op = "analyze", !.at = eng_now,
                               !.member_id = member_id,
                               !.error = "Member not found"]
         ELSE LET member == eng_members[member_id]
                  churn_risk == predict_churn_risk(member, eng_now)
              IN [NoEngOut EXCEPT
                     !.op = "analyze", !.at = eng_now,
                     !.member_id = member_id,
                     !.churn_risk = churn_risk,
                     !.insights = generate_member_insights(member, eng_now),
                     !.recommendation = get_retention_recommendation(churn_risk)]
    /\ UNCHANGED <<eng_members, eng_now>>
    /\ UNCHANGED nonEngagementVars

\* lines 96-140: identify_at_risk_members()
IdentifyAtRiskMembers ==
    /\ LET at_risk == AtRiskFrom(eng_members, 1, eng_now)
       IN eng_out' = [NoEngOut EXCEPT !.op = "identify_at_risk_members",
                                      !.at = eng_now,
                                      !.at_risk = at_risk,
                                      !.count = Len(at_risk)]
    /\ UNCHANGED <<eng_members, eng_now>>
    /\ UNCHANGED nonEngagementVars

\* lines 305-314 called with a score of its own
GetRetentionRecommendation(risk_score) ==
    /\ eng_out' = [NoEngOut EXCEPT
                      !.op = "_get_retention_recommendation",
                      !.at = eng_now,
                      !.churn_risk = risk_score,
                      !.recommendation = get_retention_recommendation(risk_score)]
    /\ UNCHANGED <<eng_members, eng_now>>
    /\ UNCHANGED nonEngagementVars

\* time passes
EngTick ==
    /\ eng_now < MaxEngHour
    /\ eng_now' = eng_now + EngTickHours
    /\ UNCHANGED <<eng_members, eng_out>>
    /\ UNCHANGED nonEngagementVars

\* The inputs.  Check-ins lie on both sides of the 7 and 14 day marks, by a
\* whole day and by an hour, and one lies in the future (a clock ahead of
\* the server's); end dates lie on both sides of the 7 and 14 day marks and
\* in the past.
HoursSinceCheckIn == {-5, 0, 7 * 24 + 23, 8 * 24, 14 * 24 + 23, 15 * 24}
LastCheckIns == {NoTime} \cup {EngStartHour - h : h \in HoursSinceCheckIn}
TotalCheckIns == {3, 4, 5, 9, 10}
DaysToExpiry == {-1, 6, 7, 13, 14}
EndDates == {NoTime} \cup {DateOf(EngStartHour) + d : d \in DaysToExpiry}
RiskScores == {0, 39, 40, 59, 60, 79, 80, 100}

\* a members table of one row drawn from all the inputs
BoundaryMembers ==
    [membership_status : MembershipStatus,
     last_check_in : LastCheckIns,
     total_check_ins : TotalCheckIns,
     membership_end_date : EndDates]

\* the rows of the larger members tables
RosterMembers ==
    [membership_status : MembershipStatus,
     last_check_in : {NoTime, EngStartHour},
     total_check_ins : {3, 9},
     membership_end_date : {NoTime, DateOf(EngStartHour) + 6}]

RECURSIVE Rosters(_)
Rosters(n) ==
    IF n = 0 THEN {<<>>}
    ELSE {Append(rows, m) : rows \in Rosters(n - 1), m \in RosterMembers}

EngagementInit ==
    /\ eng_members \in {<<m>> : m \in BoundaryMembers}
                       \cup UNION {Rosters(n) : n \in 0..MaxEngMembers}
    /\ eng_now = EngStartHour
    /\ eng_out = NoEngOut

\* the engagement agent is not in use
EngagementQuiet ==
    /\ eng_members = <<>>
    /\ eng_now = EngStartHour
    /\ eng_out = NoEngOut

EngagementNext ==
    \/ \E member_id \in 0..MaxEngMembers + 1 : Analyze(member_id)
    \/ IdentifyAtRiskMembers
    \/ \E risk_score \in RiskScores : GetRetentionRecommendation(risk_score)
    \/ EngTick

\* ------------------------------------------------------------------------
\* OperationsAgent  (app/agents/operations/operations_agent.py)
\* ------------------------------------------------------------------------
\* Times are hours; confidences are held in hundredths, and the sums of
\* 0.3, 0.4, 0.5 the code forms are the nearest doubles of these decimals.

OpsStartHour == 10000   \* utcnow() when the model starts
MaxOpsHour == 10012     \* the clock stops here
OpsTickHours == 12      \* one step of the clock
MaxEquipment == 3       \* rows of the equipment table

\* EquipmentStatus
MAINTENANCE_NEEDED == "maintenance_needed"
EquipmentStatus ==
    {"operational", MAINTENANCE_NEEDED, "under_maintenance", "out_of_service"}

\* ai_settings.EQUIPMENT_USAGE_THRESHOLD
EQUIPMENT_USAGE_THRESHOLD == 1000

\* lines 209-221: total_usage_count > threshold * 1.5 compares an int with
\* the float 1500.0; doubled, both sides are whole numbers
estimate_days_until_failure_inclusive(equipment) ==
    IF 2 * equipment.total_usage_count >= 3 * EQUIPMENT_USAGE_THRESHOLD THEN 7
    ELSE IF equipment.total_usage_count > EQUIPMENT_USAGE_THRESHOLD THEN 14
    ELSE 30

estimate_days_until_failure(equipment) ==
    IF 2 * equipment.total_usage_count > 3 * EQUIPMENT_USAGE_THRESHOLD THEN 7
    ELSE IF equipment.total_usage_count > EQUIPMENT_USAGE_THRESHOLD THEN 14
    ELSE 30

\* a rule of _predict_equipment_maintenance that did not trigger
NoFinding == [triggered |-> FALSE, reasons |-> <<>>, confidence |-> 0]

Finding(reason, confidence) ==
    [triggered |-> TRUE, reasons |-> <<reason>>, confidence |-> confidence]

\* lines 140-145, factor 1
UsageFinding(equipment) ==
    IF equipment.total_usage_count > EQUIPMENT_USAGE_THRESHOLD
    THEN Finding("High usage count", 30)
    ELSE NoFinding

\* lines 148-167, factor 2
AgeFindingBoth(equipment, t) ==
    IF equipment.last_maintenance_date # NoTime
       /\ TimedeltaDays(t - equipment.last_maintenance_date) > 90
    THEN Finding("Last maintenance", 40)
    ELSE IF equipment.purchase_date # NoTime
            /\ TimedeltaDays(t - equipment.purchase_date) > 180
         THEN Finding("Never maintained", 50)
         ELSE NoFinding

AgeFinding(equipment, t) ==
    IF equipment.last_maintenance_date # NoTime
    THEN IF TimedeltaDays(t - equipment.last_maintenance_date) > 90
         THEN Finding("Last maintenance", 40)
         ELSE NoFinding
    ELSE IF equipment.purchase_date # NoTime
            /\ TimedeltaDays(t - equipment.purchase_date) > 180
         THEN Finding("Never maintained", 50)
         ELSE NoFinding

\* lines 170-173, factor 3
StatusFinding(equipment) ==
    IF equipment.status = MAINTENANCE_NEEDED
    THEN Finding("Already marked for maintenance", 30)
    ELSE NoFinding

\* lines 135-185
predict_equipment_maintenance(equipment, t) ==
    LET usage == UsageFinding(equipment)
        age == AgeFinding(equipment, t)
        marked == StatusFinding(equipment)
    IN [needs_maintenance |-> usage.triggered \/ age.triggered \/ marked.triggered,
        confidence |-> MinOf(usage.confidence + age.confidence + marked.confidence, 100),
        reasons |-> usage.reasons \o age.reasons \o marked.reasons,
        estimated_days_until_failure |-> estimate_days_until_failure(equipment)]

NoPrediction ==
    [needs_maintenance |-> FALSE, confidence |-> 0, reasons |-> <<>>,
     estimated_days_until_failure |-> 0]

\* nothing returned yet
NoOpsOut ==
    [op |-> None, at |-> NoTime, equipment_id |-> 0,
     prediction |-> NoPrediction, scan |-> <<>>, maintenance_needed |-> <<>>]

\* _predict_equipment_maintenance(equipment) for one row of the table
PredictEquipmentMaintenance(equipment_id) ==
    /\ equipment_id \in DOMAIN ops_equipment
    /\ ops_out' = [NoOpsOut EXCEPT
                      !.op = "_predict_equipment_maintenance",
                      !.at = ops_now,
                      !.equipment_id = equipment_id,
                      !.prediction = predict_equipment_maintenance(
                                         ops_equipment[equipment_id], ops_now)]
    /\ UNCHANGED <<ops_equipment, ops_now>>
    /\ UNCHANGED nonOperationsVars

\* lines 187-207: priority in thousandths (0.5 x a confidence in hundredths
\* is a multiple of 0.005).  On the values the code can form, the doubles
\* are ordered and tied exactly as these thousandths are.
calculate_maintenance_priority_within(equipment, prediction) ==
    LET base == 0 + prediction.confidence * 5
        urgent == IF prediction.estimated_days_until_failure <= 7 THEN base + 300
                  ELSE IF prediction.estimated_days_until_failure <= 14 THEN base + 200
                  ELSE base
        total == IF equipment.category = "cardio" THEN urgent + 200 ELSE urgent
    IN MinOf(total, 1000)

calculate_maintenance_priority(equipment, prediction) ==
    LET base == 0 + prediction.confidence * 5
        urgent == IF prediction.estimated_days_until_failure < 7 THEN base + 300
                  ELSE IF prediction.estimated_days_until_failure < 14 THEN base + 200
                  ELSE base
        total == IF equipment.category = "cardio" THEN urgent + 200 ELSE urgent
    IN MinOf(total, 1000)

\* lines 95-111: the rows in the order the select delivered them, each
\* predicted, those that need maintenance appended
RECURSIVE MaintenanceNeededFrom(_, _, _, _)
MaintenanceNeededFrom(scan, i, table, t) ==
    IF i > Len(scan) THEN <<>>
    ELSE LET equipment == table[scan[i]]
             prediction == predict_equipment_maintenance(equipment, t)
             rest == MaintenanceNeededFrom(scan, i + 1, table, t)
         IN IF prediction.needs_maintenance
            THEN <<[equipment_id |-> scan[i],
                    category |-> equipment.category,
                    current_status |-> equipment.status,
                    prediction |-> prediction,
                    priority |-> calculate_maintenance_priority(
                                     equipment, prediction)]>> \o rest
            ELSE rest

\* line 114: list.sort(key=priority, reverse=True) is stable: an item goes
\* behind every item whose priority is not smaller
RECURSIVE InsertByPriorityUnstable(_, _)
InsertByPriorityUnstable(sorted, item) ==
    IF sorted = <<>> THEN <<item>>
    ELSE IF Head(sorted).priority > item.priority
         THEN <<Head(sorted)>> \o InsertByPriorityUnstable(Tail(sorted), item)
         ELSE <<item>> \o sorted

RECURSIVE InsertByPriority(_, _)
InsertByPriority(sorted, item) ==
    IF sorted = <<>> THEN <<item>>
    ELSE IF Head(sorted).priority >= item.priority
         THEN <<Head(sorted)>> \o InsertByPriority(Tail(sorted), item)
         ELSE <<item>> \o sorted

RECURSIVE SortByPriority(_)
SortByPriority(items) ==
    IF items = <<>> THEN <<>>
    ELSE InsertByPriority(SortByPriority(SubSeq(items, 1, Len(items) - 1)),
                          items[Len(items)])

\* lines 81-121: predict_maintenance_needs(); select(Equipment) has no
\* ORDER BY, so the rows arrive in an order the database chooses
PredictMaintenanceNeeds ==
    /\ \E scan \in ScanOrders(DOMAIN ops_equipment) :
          ops_out' = [NoOpsOut EXCEPT
                          !.op = "predict_maintenance_needs",
                          !.at = ops_now,
                          !.scan = scan,
                          !.maintenance_needed =
                              SortByPriority(MaintenanceNeededFrom(
                                  scan, 1, ops_equipment, ops_now))]
    /\ UNCHANGED <<ops_equipment, ops_now>>
    /\ UNCHANGED nonOperationsVars

\* time passes
OpsTick ==
    /\ ops_now < MaxOpsHour
    /\ ops_now' = ops_now + OpsTickHours
    /\ UNCHANGED <<ops_equipment, ops_out>>
    /\ UNCHANGED nonOperationsVars

\* The inputs: usage on both sides of the threshold and of 1.5 times it,
\* dates on both sides of the 90 and 180 day marks, by a day and by an hour.
UsageCounts == {0, 1000, 1001, 1500, 1501}
HoursSinceMaintenance == {10 * 24, 90 * 24 + 23, 91 * 24}
HoursSincePurchase == {180 * 24 + 23, 181 * 24, 200 * 24, 400 * 24}
MaintenanceDates == {NoTime} \cup {OpsStartHour - h : h \in HoursSinceMaintenance}
PurchaseDates == {NoTime} \cup {OpsStartHour - h : h \in HoursSincePurchase}
EquipmentCategory == {"cardio", "strength"}

BoundaryEquipment ==
    [total_usage_count : UsageCounts,
     last_maintenance_date : MaintenanceDates,
     purchase_date : PurchaseDates,
     status : EquipmentStatus,
     category : EquipmentCategory]

\* the rows of the larger equipment tables: equal rows tie in priority
RosterEquipment ==
    [total_usage_count : {0, 1501},
     last_maintenance_date : {NoTime},
     purchase_date : {NoTime},
     status : {"operational"},
     category : EquipmentCategory]

RECURSIVE EquipmentTables(_)
EquipmentTables(n) ==
    IF n = 0 THEN {<<>>}
    ELSE {Append(rows, e) : rows \in EquipmentTables(n - 1), e \in RosterEquipment}

OperationsInit ==
    /\ ops_equipment \in {<<e>> : e \in BoundaryEquipment}
                         \cup UNION {EquipmentTables(n) : n \in 0..MaxEquipment}
    /\ ops_now = OpsStartHour
    /\ ops_out = NoOpsOut

\* the operations agent is not in use
OperationsQuiet ==
    /\ ops_equipment = <<>>
    /\ ops_now = OpsStartHour
    /\ ops_out = NoOpsOut

OperationsNext ==
    \/ \E equipment_id \in 1..MaxEquipment : PredictEquipmentMaintenance(equipment_id)
    \/ PredictMaintenanceNeeds
    \/ OpsTick

\* ------------------------------------------------------------------------
\* FinancialAgent  (app/agents/financial/financial_agent.py)
\* ------------------------------------------------------------------------
\* Dates are day numbers and the clock is in hours, so that .date() is
\* DateOf.  Prices (Numeric(10, 2)) and amounts of money are held in cents,
\* priorities in hundredths; the sums of 0.1 .. 0.4 the code forms are the
\* nearest doubles of these decimals and never exceed 0.8.

MaxFinMembers == 2
FinStartHour == 2412
MaxFinHour == 2424
FinTickHours == 12

\* membership_plan_id of a member without a plan (NULL)
NoPlan == 0

\* round(x, 2) of an amount x given in hundredths of a cent.  The double
\* the code holds rounds to the nearest cent; where x lies on a half cent
\* the double lies on one side of it or the other, and half_up says which
Round2(x, half_up) ==
    LET whole == x \div 100
        rest == x % 100
    IN IF rest < 50 THEN whole
       ELSE IF rest > 50 THEN whole + 1
       ELSE IF half_up THEN whole + 1 ELSE whole

\* lines 136-160
calculate_renewal_priority_early(member, days_until_expiry) ==
    LET urgency == IF days_until_expiry < 7 THEN 0 + 40
                   ELSE IF days_until_expiry < 14 THEN 0 + 30
                   ELSE IF days_until_expiry < 21 THEN 0 + 20
                   ELSE 0
        engagement == IF member.total_check_ins > 50 THEN urgency + 30
                      ELSE IF member.total_check_ins > 20 THEN urgency + 20
                      ELSE urgency
    IN MinOf(engagement + 10, 100)

calculate_renewal_priority(member, days_until_expiry) ==
    LET urgency == IF days_until_expiry <= 7 THEN 0 + 40
                   ELSE IF days_until_expiry <= 14 THEN 0 + 30
                   ELSE IF days_until_expiry <= 21 THEN 0 + 20
                   ELSE 0
        engagement == IF member.total_check_ins > 50 THEN urgency + 30
                      ELSE IF member.total_check_ins > 20 THEN urgency + 20
                      ELSE urgency
    IN MinOf(engagement + 10, 100)

\* lines 193-200
get_offer_type(member) ==
    IF member.total_check_ins > 50 THEN "loyalty_reward"
    ELSE IF member.total_check_ins < 5 THEN "re_engagement"
    ELSE "standard_renewal"

\* lines 176-181
DiscountPercentageInclusive(member) ==
    IF member.total_check_ins > 50 THEN 10
    ELSE IF member.total_check_ins <= 5 THEN 15
    ELSE 0

DiscountPercentage(member) ==
    IF member.total_check_ins > 50 THEN 10
    ELSE IF member.total_check_ins < 5 THEN 15
    ELSE 0

\* lines 162-191; base_price * (1 - discount_percentage / 100) comes in
\* hundredths of a cent
generate_renewal_offer(member, plan, half_up) ==
    LET base_price == plan.price
        discount_percentage == DiscountPercentage(member)
        discounted_price == base_price * (100 - discount_percentage)
    IN [base_price |-> base_price,
        discount_percentage |-> discount_percentage,
        final_price |-> Round2(discounted_price, half_up),
        offer_type |-> get_offer_type(member)]

NoOffer ==
    [base_price |-> 0, discount_percentage |-> 0, final_price |-> 0,
     offer_type |-> None]

NoForecast ==
    [current_mrr |-> 0, forecast_30_days |-> 0, forecast_60_days |-> 0,
     forecast_90_days |-> 0, plan_distribution |-> <<>>,
     projected_growth_rate |-> 0]

NoFinOut ==
    [op |-> None, at |-> NoTime, member_id |-> 0, days_until_expiry |-> 0,
     renewal_priority |-> 0, offer |-> NoOffer, scan |-> <<>>,
     expiring |-> <<>>, forecast |-> NoForecast]

\* lines 90-100: the join and the WHERE; a NULL date compares as NULL, and
\* a member whose plan id matches no plan has no joined row
SelectedForRenewal(member, plans, expiry_date) ==
    /\ member.membership_plan_id \in DOMAIN plans
    /\ member.membership_status = ACTIVE
    /\ member.membership_end_date # NoTime
    /\ member.membership_end_date <= expiry_date

\* lines 102-124: the loop over the joined rows; isoformat() of the date is
\* kept as the date
RECURSIVE ExpiringFrom(_, _, _, _, _, _)
ExpiringFrom(scan, k, rows, plans, t, half_up) ==
    IF k > Len(scan) THEN <<>>
    ELSE LET member == rows[scan[k]]
             plan == plans[member.membership_plan_id]
             days_until_expiry == member.membership_end_date - DateOf(t)
         IN <<[member_id |-> scan[k],
               plan_name |-> plan.name,
               plan_price |-> plan.price,
               expiry_date |-> member.membership_end_date,
               days_until_expiry |-> days_until_expiry,
               renewal_priority |->
                   calculate_renewal_priority(member, days_until_expiry),
               recommended_offer |->
                   generate_renewal_offer(member, plan, half_up[scan[k]])]>>
              \o ExpiringFrom(scan, k + 1, rows, plans, t, half_up)

\* line 127: list.sort(key=renewal_priority, reverse=True) is stable
RECURSIVE InsertByRenewalPriority(_, _)
InsertByRenewalPriority(sorted, item) ==
    IF sorted = <<>> THEN <<item>>
    ELSE IF Head(sorted).renewal_priority >= item.renewal_priority
         THEN <<Head(sorted)>> \o InsertByRenewalPriority(Tail(sorted), item)
         ELSE <<item>> \o sorted

RECURSIVE SortByRenewalPriority(_)
SortByRenewalPriority(items) ==
    IF items = <<>> THEN <<>>
    ELSE InsertByRenewalPriority(
             SortByRenewalPriority(SubSeq(items, 1, Len(items) - 1)),
             items[Len(items)])

\* lines 83-134: identify_expiring_memberships(); the select has no
\* ORDER BY, so the rows arrive in an order the database chooses
IdentifyExpiringMemberships ==
    LET expiry_date == DateOf(fin_now) + 30
        ids == {id \in DOMAIN fin_members :
                   SelectedForRenewal(fin_members[id], fin_plans, expiry_date)}
    IN /\ \E scan \in ScanOrders(ids), half_up \in [ids -> BOOLEAN] :
             fin_out' = [NoFinOut EXCEPT
                            !.op = "identify_expiring_memberships",
                            !.at = fin_now,
                            !.scan = scan,
                            !.expiring =
                                SortByRenewalPriority(ExpiringFrom(
                                    scan, 1, fin_members, fin_plans, fin_now,
                                    half_up))]
       /\ UNCHANGED <<fin_members, fin_plans, fin_now>>
       /\ UNCHANGED nonFinancialVars

\* lines 136-160 called for a member with a number of days of its own
CalculateRenewalPriority(member_id, days_until_expiry) ==
    /\ member_id \in DOMAIN fin_members
    /\ fin_out' = [NoFinOut EXCEPT
                      !.op = "_calculate_renewal_priority",
                      !.at = fin_now,
                      !.member_id = member_id,
                      !.days_until_expiry = days_until_expiry,
                      !.renewal_priority =
                          calculate_renewal_priority(fin_members[member_id],
                                                     days_until_expiry)]
    /\ UNCHANGED <<fin_members, fin_plans, fin_now>>
    /\ UNCHANGED nonFinancialVars

\* lines 162-191 called for a member and the member's plan
GenerateRenewalOffer(member_id) ==
    /\ member_id \in DOMAIN fin_members
    /\ fin_members[member_id].membership_plan_id \in DOMAIN fin_plans
    /\ \E half_up \in BOOLEAN :
          fin_out' = [NoFinOut EXCEPT
                         !.op = "_generate_renewal_offer",
                         !.at = fin_now,
                         !.member_id = member_id,
                         !.offer = generate_renewal_offer(
                                       fin_members[member_id],
                                       fin_plans[fin_members[member_id]
                                                     .membership_plan_id],
                                       half_up)]
    /\ UNCHANGED <<fin_members, fin_plans, fin_now>>
    /\ UNCHANGED nonFinancialVars

\* lines 218-222: func.count(Member.id) of the active members joined to a plan
ActiveMembersOn(plan_id, rows) ==
    Cardinality({id \in DOMAIN rows :
                    /\ rows[id].membership_plan_id = plan_id
                    /\ rows[id].membership_status = ACTIVE})

\* lines 225-237: the loop over the grouped rows
RECURSIVE PlanDistributionFrom(_, _, _, _)
PlanDistributionFrom(scan, k, rows, plans) ==
    IF k > Len(scan) THEN <<>>
    ELSE <<[price |-> plans[scan[k]].price,
            members |-> ActiveMembersOn(scan[k], rows),
            revenue |-> plans[scan[k]].price * ActiveMembersOn(scan[k], rows)]>>
         \o PlanDistributionFrom(scan, k + 1, rows, plans)

RECURSIVE SumRevenue(_)
SumRevenue(plan_distribution) ==
    IF plan_distribution = <<>> THEN 0
    ELSE SumRevenue(SubSeq(plan_distribution, 1, Len(plan_distribution) - 1))
         + plan_distribution[Len(plan_distribution)].revenue

\* line 240: growth_rate = 0.05, in hundredths
GrowthRate == 5

ProjectedCompounding(current_mrr, months) ==
    IF months = 1 THEN current_mrr * 105
    ELSE IF months = 2 THEN (current_mrr * 11025) \div 100
    ELSE (current_mrr * 1157625) \div 10000

\* lines 242-245: current_mrr * (1 + growth_rate * months) in hundredths of
\* a cent
Projected(current_mrr, months) == current_mrr * (100 + GrowthRate * months)

\* lines 202-247: forecast_revenue(); a plan without an active member has
\* no row in the grouped join
ForecastRevenue ==
    LET plan_ids == {p \in DOMAIN fin_plans : ActiveMembersOn(p, fin_members) > 0}
    IN /\ \E scan \in ScanOrders(plan_ids), half_up \in [1..3 -> BOOLEAN] :
             LET plan_distribution ==
                     PlanDistributionFrom(scan, 1, fin_members, fin_plans)
                 current_mrr == SumRevenue(plan_distribution)
             IN fin_out' = [NoFinOut EXCEPT
                    !.op = "forecast_revenue",
                    !.at = fin_now,
                    !.scan = scan,
                    !.forecast =
                        [current_mrr |-> Round2(current_mrr * 100, FALSE),
                         forecast_30_days |->
                             Round2(Projected(current_mrr, 1), half_up[1]),
                         forecast_60_days |->
                             Round2(Projected(current_mrr, 2), half_up[2]),
                         forecast_90_days |->
                             Round2(Projected(current_mrr, 3), half_up[3]),
                         plan_distribution |-> plan_distribution,
                         projected_growth_rate |-> GrowthRate]]
       /\ UNCHANGED <<fin_members, fin_plans, fin_now>>
       /\ UNCHANGED nonFinancialVars

\* time passes
FinTick ==
    /\ fin_now < MaxFinHour
    /\ fin_now' = fin_now + FinTickHours
    /\ UNCHANGED <<fin_members, fin_plans, fin_out>>
    /\ UNCHANGED nonFinancialVars

\* The inputs.  Check-ins lie on both sides of 5, 20 and 50; end dates lie
\* on both sides of today, of the 7 day mark and of the 30 day horizon,
\* the numbers of days handed to _calculate_renewal_priority on both sides
\* of the 7, 14 and 21 day marks; prices are zero and two prices whose projections are no whole
\* cents.
FinCheckIns == {0, 4, 5, 20, 21, 50, 51}
FinDaysToExpiry == {-1, 0, 7, 8, 30, 31}
FinEndDates == {NoTime} \cup {DateOf(FinStartHour) + d : d \in FinDaysToExpiry}
DaysUntilExpiry == {-400, -1, 0, 7, 8, 14, 15, 21, 22, 400}
PlanPrices == {0, 1007, 3001}

\* a members table of one row drawn from all the inputs
BoundaryFinMembers ==
    [membership_status : MembershipStatus,
     membership_end_date : FinEndDates,
     total_check_ins : FinCheckIns,
     membership_plan_id : {NoPlan, 1}]

\* the rows of the larger members tables
RosterFinMembers ==
    {m \in [membership_status : {ACTIVE, "expired"},
            membership_end_date : {DateOf(FinStartHour) + 7},
            total_check_ins : {4, 51},
            membership_plan_id : {1, 2}] :
        m.membership_plan_id = 2 <=> m.total_check_ins = 51}

RECURSIVE FinRosters(_)
FinRosters(n) ==
    IF n = 0 THEN {<<>>}
    ELSE {Append(rows, m) : rows \in FinRosters(n - 1), m \in RosterFinMembers}

FinancialInit ==
    /\ \/ /\ fin_members \in {<<m>> : m \in BoundaryFinMembers}
          /\ fin_plans \in {<<[name |-> "basic", price |-> p]>> : p \in PlanPrices}
       \/ /\ fin_members \in UNION {FinRosters(n) : n \in 0..MaxFinMembers}
          /\ fin_plans = <<[name |-> "basic", price |-> 1007],
                           [name |-> "premium", price |-> 3001]>>
    /\ fin_now = FinStartHour
    /\ fin_out = NoFinOut

\* the financial agent is not in use
FinancialQuiet ==
    /\ fin_members = <<>>
    /\ fin_plans = <<>>
    /\ fin_now = FinStartHour
    /\ fin_out = NoFinOut

FinancialNext ==
    \/ IdentifyExpiringMemberships
    \/ \E member_id \in 1..MaxFinMembers, days_until_expiry \in DaysUntilExpiry :
          CalculateRenewalPriority(member_id, days_until_expiry)
    \/ \E member_id \in 1..MaxFinMembers : GenerateRenewalOffer(member_id)
    \/ ForecastRevenue
    \/ FinTick

\* ------------------------------------------------------------------------
\* FacilityConfig  (app/models/facility_config.py)
\* ------------------------------------------------------------------------
\* occupancy_alert_threshold is held in hundredths.  The code compares the
\* double (current_occupancy / capacity * 100) / 100 with the threshold;
\* for thresholds of whole hundredths that comparison agrees with the
\* exact one, current_occupancy * 100 >= threshold * capacity.

\* hour = None
NoHour == NoTime

Periods == {"morning", "afternoon", "evening", "night"}

\* peak_hours_capacity that is NULL or {}: both are false in "not ..."
NoPeakHours == [period \in {} |-> 0]

\* lines 72-93
get_current_capacity(config, hour) ==
    IF hour = NoHour \/ DOMAIN config.peak_hours_capacity = {}
    THEN config.total_capacity
    ELSE LET period == IF 5 <= hour /\ hour < 12 THEN "morning"
                       ELSE IF 12 <= hour /\ hour < 17 THEN "afternoon"
                       ELSE IF 17 <= hour /\ hour < 22 THEN "evening"
                       ELSE "night"
         IN IF period \in DOMAIN config.peak_hours_capacity
            THEN config.peak_hours_capacity[period]
            ELSE config.total_capacity

\* lines 100-113: get_occupancy_percentage() / 100 >= threshold, the
\* percentage being 0 when the capacity is not positive
should_send_occupancy_alert_strict(config, current_occupancy, hour) ==
    LET capacity == get_current_capacity(config, hour)
    IN /\ config.enable_occupancy_alerts
       /\ IF capacity > 0
          THEN current_occupancy * 100 > config.occupancy_alert_threshold * capacity
          ELSE 0 > config.occupancy_alert_threshold

should_send_occupancy_alert(config, current_occupancy, hour) ==
    LET capacity == get_current_capacity(config, hour)
    IN /\ config.enable_occupancy_alerts
       /\ IF capacity > 0
          THEN current_occupancy * 100 >= config.occupancy_alert_threshold * capacity
          ELSE 0 >= config.occupancy_alert_threshold

\* lines 27, 58-59: the column defaults
DefaultConfig ==
    [total_capacity |-> 100,
     peak_hours_capacity |-> NoPeakHours,
     occupancy_alert_threshold |-> 90,
     enable_occupancy_alerts |-> TRUE]

\* config is the object as it was when the call was made
NoFacOut ==
    [op |-> None, config |-> DefaultConfig, hour |-> NoHour,
     current_occupancy |-> 0, capacity |-> 0, alert |-> FALSE]

\* get_current_capacity(hour)
GetCurrentCapacity(hour) ==
    /\ fac_out' = [NoFacOut EXCEPT
                      !.op = "get_current_capacity",
                      !.config = fac_config,
                      !.hour = hour,
                      !.capacity = get_current_capacity(fac_config, hour)]
    /\ UNCHANGED fac_config
    /\ UNCHANGED nonFacilityVars

\* should_send_occupancy_alert(current_occupancy, hour)
ShouldSendOccupancyAlert(current_occupancy, hour) ==
    /\ fac_out' = [NoFacOut EXCEPT
                      !.op = "should_send_occupancy_alert",
                      !.config = fac_config,
                      !.hour = hour,
                      !.current_occupancy = current_occupancy,
                      !.capacity = get_current_capacity(fac_config, hour),
                      !.alert = should_send_occupancy_alert(
                                    fac_config, current_occupancy, hour)]
    /\ UNCHANGED fac_config
    /\ UNCHANGED nonFacilityVars

\* config.enable_occupancy_alerts = enabled (line 59: a plain column)
SetEnableOccupancyAlerts(enabled) ==
    /\ fac_config.enable_occupancy_alerts # enabled
    /\ fac_config' = [fac_config EXCEPT !.enable_occupancy_alerts = enabled]
    /\ UNCHANGED fac_out
    /\ UNCHANGED nonFacilityVars

\* The inputs: every period's first and last hour, occupancies on both
\* sides of the threshold for each capacity, a period whose capacity is 0.
Hours == {NoHour, 0, 4, 5, 11, 12, 16, 17, 21, 22, 23}
Occupancies == {0, 40, 44, 45, 71, 72, 80, 89, 90, 95, 107, 108}
PeakHoursCapacities ==
    {NoPeakHours,
     [period \in Periods |->
         CASE period = "morning" -> 80
           [] period = "afternoon" -> 100
           [] period = "evening" -> 120
           [] period = "night" -> 50],
     [period \in {"morning"} |-> 80],
     [period \in {"night"} |-> 0]}

FacilityConfigs ==
    [total_capacity : {0, 100},
     peak_hours_capacity : PeakHoursCapacities,
     occupancy_alert_threshold : {0, 50, 90},
     enable_occupancy_alerts : BOOLEAN]

FacilityInit ==
    /\ fac_config \in FacilityConfigs
    /\ fac_out = NoFacOut

\* no facility configuration is in use
FacilityQuiet ==
    /\ fac_config = DefaultConfig
    /\ fac_out = NoFacOut

FacilityNext ==
    \/ \E hour \in Hours : GetCurrentCapacity(hour)
    \/ \E current_occupancy \in Occupancies, hour \in Hours :
          ShouldSendOccupancyAlert(current_occupancy, hour)
    \/ \E enabled \in BOOLEAN : SetEnableOccupancyAlerts(enabled)

\* the payment service is not in use
PaymentsQuiet ==
    /\ payments = <<>>
    /\ history = <<>>
    /\ members = [m \in MemberIds |-> None]
    /\ now = 0
    /\ req = [r \in Reqs |-> IdleReq]
    /\ ops = 0

\* ------------------------------------------------------------------------
\* Specifications: one per part of the program
\* ------------------------------------------------------------------------

\* the state each specification starts in
PaymentSpecInit ==
    /\ Init
    /\ AgentQuiet /\ EngagementQuiet /\ OperationsQuiet
    /\ FinancialQuiet /\ FacilityQuiet
AgentSpecInit ==
    /\ AgentInit
    /\ PaymentsQuiet /\ EngagementQuiet /\ OperationsQuiet
    /\ FinancialQuiet /\ FacilityQuiet
EngagementSpecInit ==
    /\ EngagementInit
    /\ PaymentsQuiet /\ AgentQuiet /\ OperationsQuiet
    /\ FinancialQuiet /\ FacilityQuiet
OperationsSpecInit ==
    /\ OperationsInit
    /\ PaymentsQuiet /\ AgentQuiet /\ EngagementQuiet
    /\ FinancialQuiet /\ FacilityQuiet
FinancialSpecInit ==
    /\ FinancialInit
    /\ PaymentsQuiet /\ AgentQuiet /\ EngagementQuiet /\ OperationsQuiet
    /\ FacilityQuiet
FacilitySpecInit ==
    /\ FacilityInit
    /\ PaymentsQuiet /\ AgentQuiet /\ EngagementQuiet /\ OperationsQuiet
    /\ FinancialQuiet

Spec == PaymentSpecInit /\ [][Next]_vars

SpecAgent == AgentSpecInit /\ [][AgentNext]_agentVars

SpecEngagement == EngagementSpecInit /\ [][EngagementNext]_engagementVars

SpecOperations == OperationsSpecInit /\ [][OperationsNext]_operationsVars

SpecFinancial == FinancialSpecInit /\ [][FinancialNext]_financialVars

SpecFacility == FacilitySpecInit /\ [][FacilityNext]_facilityVars

\* ------------------------------------------------------------------------
\* Properties
\* ------------------------------------------------------------------------

\* the transition graph the specification gives for a payment's status
AllowedTransitions ==
    {<<PENDING, PROCESSING>>, <<PENDING, FAILED>>, <<PENDING, SUCCEEDED>>,
     <<PROCESSING, SUCCEEDED>>, <<PROCESSING, FAILED>>,
     <<SUCCEEDED, REFUNDED>>}
    \cup {<<s, CANCELED>> : s \in PaymentStatus}

TerminalStatuses == {SUCCEEDED, REFUNDED, CANCELED}

\* request r performs the commit of the named operation in this step
CommitStep(r, op) ==
    /\ req[r].op = op
    /\ req[r].pc = "commit"
    /\ req'[r].pc = "refresh"

\* request r is a call of the named operation that arrives in this step
ArrivalStep(r, op) ==
    /\ req[r].pc = "idle"
    /\ req'[r].op = op

\* C1: every change of a stored payment status follows the graph
\* pending -> processing | failed | succeeded, processing -> succeeded | failed,
\* succeeded -> refunded, any -> canceled.
C1_StatusChangesFollowGraph ==
    [][\A i \in DOMAIN payments :
          payments'[i].status # payments[i].status
          => <<payments[i].status, payments'[i].status>> \in AllowedTransitions]_vars

\* C2: an update requested on a payment in a terminal status whose target
\* the graph does not allow ends in an InvalidTransition outcome and leaves
\* the payment rows and the history log as they were.
C2_TerminalTransitionRejected ==
    [][\A r \in Reqs :
          (/\ req[r].op = "update_payment_status"
           /\ req[r].pc = "commit"
           /\ req'[r].new_status \in PaymentStatus
           /\ req[r].row.status \in TerminalStatuses
           /\ <<req[r].row.status, req'[r].new_status>> \notin AllowedTransitions)
          => (/\ payments' = payments
              /\ history' = history
              /\ req'[r].result = "InvalidTransition")]_vars

\* C3: a payment's status mutation and the append of its history entry are
\* one atomic step: a step that inserts a payment or changes its stored
\* status appends that payment's history entry, and a step that appends a
\* history entry recording a change is the step that changes the row.
C3_StatusAndHistoryAtomic ==
    [][LET appended == Len(history') = Len(history) + 1
           entry == history'[Len(history')]
       IN /\ \A i \in DOMAIN payments' :
                (i \notin DOMAIN payments \/ payments'[i].status # payments[i].status)
                => (appended /\ entry.payment_id = i)
          /\ (appended /\ entry.previous_status # entry.new_status)
                => (\/ entry.payment_id \notin DOMAIN payments
                    \/ payments'[entry.payment_id] # payments[entry.payment_id])]_vars

\* C4: transitions on one payment are serialized: every committed
\* process_failed_payment raises the stored retry_count by exactly one, so
\* two interleaved calls raise it by two.
C4_NoLostRetryIncrement ==
    [][\A r \in Reqs :
          CommitStep(r, "process_failed_payment")
          => payments'[req[r].payment_id].retry_count
                = payments[req[r].payment_id].retry_count + 1]_vars

\* the delays the specification lists for failures 1..5, in hours
BackoffHours == <<2, 4, 8, 16, 32>>

C6_RetryCountAtMostFive ==
    \A i \in DOMAIN payments : payments[i].retry_count <= 5

\* C7: a failure that brings retry_count to 5 or more schedules no further
\* retry (next_retry_at is not set to a new future time by that call), and
\* no query for retryable payments returns a payment with retry_count >= 5.
C7_NoRetryScheduledAtLimit ==
    [][/\ \A r \in Reqs :
             (/\ CommitStep(r, "process_failed_payment")
              /\ payments'[req[r].payment_id].retry_count >= 5)
             => ~(/\ payments'[req[r].payment_id].next_retry_at
                        # payments[req[r].payment_id].next_retry_at
                  /\ payments'[req[r].payment_id].next_retry_at > now)
       /\ \A r \in Reqs :
             ArrivalStep(r, "get_failed_payments_for_retry")
             => \A n \in DOMAIN req'[r].retryable :
                   payments[req'[r].retryable[n]].retry_count < 5]_vars

C9_NotFoundLeavesStoreUnchanged ==
    [][\A r \in Reqs :
          (/\ \/ ArrivalStep(r, "update_payment_status")
              \/ ArrivalStep(r, "process_failed_payment")
           /\ req'[r].payment_id \notin DOMAIN payments)
          => (/\ req'[r].pc = "done"
              /\ req'[r].result = None
              /\ payments' = payments
              /\ history' = history)]_vars

\* a call on a missing identifier has returned None while rows and history exist
C9_Witness ==
    \E r \in Reqs :
        /\ req[r].op \in {"update_payment_status", "process_failed_payment"}
        /\ req[r].pc = "done"
        /\ req[r].result = None
        /\ req[r].payment_id \notin DOMAIN payments
        /\ payments # <<>>
        /\ history # <<>>

\* C10: a committed update to succeeded stores paid_at = now and one to
\* refunded stores refunded_at = now; every stored payment with status
\* succeeded has paid_at set and every one with status refunded has
\* refunded_at set.
C10_PaidAndRefundedTimestamps ==
    [][/\ \A r \in Reqs :
             CommitStep(r, "update_payment_status")
             => /\ req'[r].new_status = SUCCEEDED
                   => payments'[req[r].payment_id].paid_at = now
                /\ req'[r].new_status = REFUNDED
                   => payments'[req[r].payment_id].refunded_at = now
       /\ \A i \in DOMAIN payments' :
             /\ payments'[i].status = SUCCEEDED => payments'[i].paid_at # NoTime
             /\ payments'[i].status = REFUNDED => payments'[i].refunded_at # NoTime]_vars

\* a payment was paid and later, at another hour, refunded
C10_Witness ==
    \E i \in DOMAIN payments :
        /\ payments[i].status = REFUNDED
        /\ payments[i].paid_at # NoTime
        /\ payments[i].refunded_at > payments[i].paid_at


\* request r has committed a change of a payment row and not finished yet
HasMutated(r) ==
    /\ req[r].pc \in {"refresh", "add_history"}
    /\ \/ req[r].op \in {"create_payment", "process_failed_payment"}
       \/ req[r].op = "update_payment_status"
          /\ req[r].new_status # req[r].old_status

\* the history entries of payment id with the given event type
EntriesOf(h, id, event_type) ==
    {i \in DOMAIN h : h[i].payment_id = id /\ h[i].event_type = event_type}

\* C11: every payment produced by create_payment is inserted with status
\* pending, whatever the method and auto_process, and with retry_count 0,
\* and when create_payment returns it the payment has exactly one history
\* entry of type created.
C11_CreatedPendingWithOneEntry ==
    [][\A r \in Reqs :
          /\ (/\ req[r].op = "create_payment"
              /\ req[r].pc \in {"after_member", "insert"}
              /\ req'[r].pc = "refresh")
             => (/\ payments'[req'[r].payment_id].status = PENDING
                 /\ payments'[req'[r].payment_id].retry_count = 0)
          /\ (/\ req[r].op = "create_payment"
              /\ req[r].pc # "done"
              /\ req'[r].result = "payment")
             => Cardinality(EntriesOf(history', req[r].payment_id, "created")) = 1]_vars

\* C12: the payment history is an append-only log: no step updates or
\* removes an entry, so the history of every state is a prefix of the
\* history of the next, and every operation that has mutated a payment
\* appends exactly one entry for that payment before it ends.
C12_HistoryAppendOnly ==
    [][/\ Len(history') >= Len(history)
       /\ SubSeq(history', 1, Len(history)) = history
       /\ Len(history') <= Len(history) + 1
       /\ \A r \in Reqs :
             (HasMutated(r) /\ req'[r].pc = "done")
             => (/\ Len(history') = Len(history) + 1
                 /\ history'[Len(history')].payment_id = req[r].payment_id)]_vars

\* the append-only part of C12 alone: every step leaves the entries already
\* written in place and adds at most one
HistoryIsPrefixOfNext ==
    [][/\ Len(history') \in {Len(history), Len(history) + 1}
       /\ SubSeq(history', 1, Len(history)) = history]_vars

\* the status changes the specification gives for an agent
AgentTransitions ==
    {<<IDLE, RUNNING>>, <<RUNNING, COMPLETED>>, <<RUNNING, FAILED>>}

\* run() returns to its caller in this step
RunReturns == agent_run.pc = "execute" /\ agent_run'.pc = "returned"

\* C13: an agent's status follows idle -> running -> {completed, failed}
\* only: every change of the status is one of these three, so the agent
\* never returns to idle, and once completed or failed it never becomes
\* running again, also when run() is called a second time.
C13_AgentStatusMachine ==
    [][agent_state'.status # agent_state.status
       => <<agent_state.status, agent_state'.status>> \in AgentTransitions]_agentVars

\* C14: when execute() does not finish within the timeout, run() returns a
\* failed result (success false, status failed) with exactly one error
\* message, the agent state records that same single message, the agent
\* status is failed, and execute() is not started again.
C14_TimeoutFailsWithOneMessage ==
    [][(RunReturns /\ ~WithinTimeout)
       => (/\ agent_run'.result.status = FAILED
           /\ agent_run'.result.success = FALSE
           /\ Len(agent_run'.result.errors) = 1
           /\ agent_state'.errors = agent_run'.result.errors
           /\ agent_state'.status = FAILED
           /\ agent_run'.runs = agent_run.runs)]_agentVars

\* C15: when the work of an agent raises an exception other than a timeout,
\* run() returns a failed result whose error list is exactly the message of
\* that exception, and the agent ends in status failed.
C15_ExceptionGivesFailedAgent ==
    [][(RunReturns /\ agent_run'.raised # None)
       => (/\ agent_run'.result.status = FAILED
           /\ agent_run'.result.success = FALSE
           /\ agent_run'.result.errors = <<agent_run'.raised>>
           /\ agent_state'.status = FAILED)]_agentVars

\* C16: the result run() returns carries the elapsed time of the run as its
\* execution_time for every outcome: success, exception and timeout.
C16_ExecutionTimeAlwaysMeasured ==
    [][RunReturns
       => agent_run'.result.execution_time
             = agent_clock - agent_state.started_at]_agentVars

\* the three factors of the churn score as the specification states them,
\* days being whole days
StatedRecency(member, t) ==
    IF member.last_check_in = NoTime THEN 40
    ELSE IF TimedeltaDays(t - member.last_check_in) > 14 THEN 40
    ELSE IF TimedeltaDays(t - member.last_check_in) > 7 THEN 20
    ELSE 0

StatedFrequency(member) ==
    CASE member.total_check_ins < 5 -> 30
      [] member.total_check_ins >= 5 /\ member.total_check_ins < 10 -> 15
      [] member.total_check_ins >= 10 -> 0

StatedExpiry(member, t) ==
    IF member.membership_end_date = NoTime THEN 0
    ELSE LET remain == member.membership_end_date - DateOf(t)
         IN CASE remain < 7 -> 30
              [] remain >= 7 /\ remain < 14 -> 15
              [] remain >= 14 -> 0

\* analyze returned the score of a member in this state
Analyzed == eng_out.op = "analyze" /\ eng_out.error = None

\* C17: predict_churn_risk returns min(1.0, recency + frequency + expiry)
\* with recency 0.4 for no check-in or one more than 14 days ago, 0.2 for
\* more than 7 days ago, else 0; frequency 0.3 under 5 check-ins, 0.15
\* under 10, else 0; expiry 0 without an end date, 0.3 with fewer than 7
\* days left, 0.15 with fewer than 14, else 0.  So the score is in [0,1]
\* and at least 0.4 when the member never checked in.
C17_ChurnScoreFormula ==
    Analyzed
    => LET member == eng_members[eng_out.member_id]
           t == eng_out.at
           total == StatedRecency(member, t) + StatedFrequency(member)
                       + StatedExpiry(member, t)
       IN /\ eng_out.churn_risk = (IF total > 100 THEN 100 ELSE total)
          /\ eng_out.churn_risk \in 0..100
          /\ member.last_check_in = NoTime => eng_out.churn_risk >= 40

\* a member who checked in 14 days and 23 hours ago (14 whole days), with
\* 9 check-ins and 13 days left, was scored 0.2 + 0.15 + 0.15
C17_Witness ==
    /\ Analyzed
    /\ eng_members[eng_out.member_id].last_check_in # NoTime
    /\ eng_out.at - eng_members[eng_out.member_id].last_check_in = 14 * 24 + 23
    /\ eng_members[eng_out.member_id].total_check_ins = 9
    /\ eng_members[eng_out.member_id].membership_end_date - DateOf(eng_out.at) = 13
    /\ eng_out.churn_risk = 50

\* the tier the specification gives for a score
StatedTier(risk_score) ==
    CASE risk_score >= 80 -> URGENT
      [] risk_score >= 60 /\ risk_score < 80 -> HIGH
      [] risk_score >= 40 /\ risk_score < 60 -> MEDIUM
      [] risk_score < 40 -> LOW

\* C18: the recommendation depends on the score alone, with inclusive
\* lower bounds: >= 0.8 urgent, >= 0.6 high, >= 0.4 medium, else low; a
\* member with 3 check-ins, no last check-in and no end date scores 0.7
\* and is classified high.
C18_RecommendationTiers ==
    /\ eng_out.recommendation # None
       => eng_out.recommendation = StatedTier(eng_out.churn_risk)
    /\ (/\ Analyzed
        /\ eng_members[eng_out.member_id].total_check_ins = 3
        /\ eng_members[eng_out.member_id].last_check_in = NoTime
        /\ eng_members[eng_out.member_id].membership_end_date = NoTime)
       => (eng_out.churn_risk = 70 /\ eng_out.recommendation = HIGH)

\* the scenario member was analyzed
C18_Witness ==
    /\ Analyzed
    /\ eng_members[eng_out.member_id].total_check_ins = 3
    /\ eng_members[eng_out.member_id].last_check_in = NoTime
    /\ eng_members[eng_out.member_id].membership_end_date = NoTime
    /\ eng_out.recommendation = HIGH

\* the member ids of a list of at-risk items
ReturnedIds(at_risk) == {at_risk[k].member_id : k \in DOMAIN at_risk}

\* C19: identify_at_risk_members returns exactly the members that are
\* active and score at or over the threshold 0.7: no expired, cancelled or
\* suspended member, every active member at or over the threshold, once,
\* and each item with that member's score.
C19_AtRiskExactlyActiveOverThreshold ==
    eng_out.op = "identify_at_risk_members"
    => /\ ReturnedIds(eng_out.at_risk)
            = {i \in DOMAIN eng_members :
                  /\ eng_members[i].membership_status = ACTIVE
                  /\ predict_churn_risk(eng_members[i], eng_out.at)
                        >= CHURN_PREDICTION_THRESHOLD}
       /\ Len(eng_out.at_risk) = Cardinality(ReturnedIds(eng_out.at_risk))
       /\ \A k \in DOMAIN eng_out.at_risk :
             eng_out.at_risk[k].risk_score
                = predict_churn_risk(eng_members[eng_out.at_risk[k].member_id],
                                     eng_out.at)

\* of two members scoring 0.7, the active one was returned and the expired
\* one was not
C19_Witness ==
    /\ eng_out.op = "identify_at_risk_members"
    /\ Len(eng_members) = 2
    /\ eng_members[1].membership_status = "expired"
    /\ predict_churn_risk(eng_members[1], eng_out.at) = 70
    /\ eng_members[2].membership_status = ACTIVE
    /\ Len(eng_out.at_risk) = 1
    /\ eng_out.at_risk[1].member_id = 2
    /\ eng_out.at_risk[1].risk_score = 70

\* the rules of the maintenance prediction as the specification states them
HighUsage(equipment) == equipment.total_usage_count > EQUIPMENT_USAGE_THRESHOLD

NeverMaintained(equipment, t) ==
    /\ equipment.last_maintenance_date = NoTime
    /\ equipment.purchase_date # NoTime
    /\ TimedeltaDays(t - equipment.purchase_date) > 180

StaleMaintenance(equipment, t) ==
    /\ equipment.last_maintenance_date # NoTime
    /\ TimedeltaDays(t - equipment.last_maintenance_date) > 90

MarkedForMaintenance(equipment) == equipment.status = MAINTENANCE_NEEDED

Weight(triggered, weight) == IF triggered THEN weight ELSE 0

\* C20: _predict_equipment_maintenance sets needs_maintenance and adds to
\* confidence for exactly the triggered rules: usage over the threshold
\* (+0.3), never maintained and purchased more than 180 days ago (+0.5),
\* last maintenance more than 90 days ago (+0.4), status maintenance_needed
\* (+0.3); confidence is the sum clamped to 1.0.  Equipment with a
\* maintenance date is never scored through its purchase date.  Usage 1500,
\* never maintained, purchased 200 days ago gives needs_maintenance with
\* confidence 0.8.
C20_MaintenanceRules ==
    ops_out.op = "_predict_equipment_maintenance"
    => LET equipment == ops_equipment[ops_out.equipment_id]
           t == ops_out.at
           prediction == ops_out.prediction
           total == Weight(HighUsage(equipment), 30)
                       + Weight(NeverMaintained(equipment, t), 50)
                       + Weight(StaleMaintenance(equipment, t), 40)
                       + Weight(MarkedForMaintenance(equipment), 30)
       IN /\ prediction.needs_maintenance
                = (\/ HighUsage(equipment)
                   \/ NeverMaintained(equipment, t)
                   \/ StaleMaintenance(equipment, t)
                   \/ MarkedForMaintenance(equipment))
          /\ prediction.confidence = (IF total > 100 THEN 100 ELSE total)
          /\ Len(prediction.reasons)
                = Cardinality({rule \in {"usage", "never", "stale", "marked"} :
                      \/ rule = "usage" /\ HighUsage(equipment)
                      \/ rule = "never" /\ NeverMaintained(equipment, t)
                      \/ rule = "stale" /\ StaleMaintenance(equipment, t)
                      \/ rule = "marked" /\ MarkedForMaintenance(equipment)})
          /\ equipment.last_maintenance_date # NoTime
                => prediction.confidence
                     = Weight(HighUsage(equipment), 30)
                          + Weight(StaleMaintenance(equipment, t), 40)
                          + Weight(MarkedForMaintenance(equipment), 30)
          /\ (/\ equipment.total_usage_count = 1500
              /\ equipment.last_maintenance_date = NoTime
              /\ equipment.purchase_date # NoTime
              /\ t - equipment.purchase_date = 200 * 24
              /\ ~MarkedForMaintenance(equipment))
                => (prediction.needs_maintenance /\ prediction.confidence = 80)

\* equipment maintained 10 days ago and bought 400 days ago was predicted:
\* the purchase date added nothing
C20_Witness ==
    /\ ops_out.op = "_predict_equipment_maintenance"
    /\ ops_equipment[ops_out.equipment_id].last_maintenance_date # NoTime
    /\ ops_out.at - ops_equipment[ops_out.equipment_id].last_maintenance_date = 10 * 24
    /\ ops_equipment[ops_out.equipment_id].purchase_date # NoTime
    /\ ops_out.at - ops_equipment[ops_out.equipment_id].purchase_date = 400 * 24
    /\ ops_equipment[ops_out.equipment_id].total_usage_count = 1500
    /\ ops_out.prediction.confidence = 30

\* a prediction was returned for one row of the equipment table
Predicted == ops_out.op = "_predict_equipment_maintenance"

\* C21: estimated_days_until_failure is 7 when usage_count is strictly over
\* 1.5 x threshold, 14 when strictly over the threshold, 30 otherwise: usage
\* 1500 at threshold 1000 yields 14 and usage 1000 yields 30.
C21_EstimatedDaysStrict ==
    Predicted
    => LET usage == ops_equipment[ops_out.equipment_id].total_usage_count
           days == ops_out.prediction.estimated_days_until_failure
       IN /\ days = (CASE 10 * usage > 15 * EQUIPMENT_USAGE_THRESHOLD -> 7
                       [] 10 * usage <= 15 * EQUIPMENT_USAGE_THRESHOLD
                          /\ usage > EQUIPMENT_USAGE_THRESHOLD -> 14
                       [] usage <= EQUIPMENT_USAGE_THRESHOLD -> 30)
          /\ usage = 1500 => days = 14
          /\ usage = 1000 => days = 30

\* equipment used exactly 1.5 x threshold times was estimated at 14 days
C21_Witness ==
    /\ Predicted
    /\ ops_equipment[ops_out.equipment_id].total_usage_count = 1500
    /\ ops_out.prediction.estimated_days_until_failure = 14

\* predict_maintenance_needs returned a list in this state
PredictedAll == ops_out.op = "predict_maintenance_needs"

\* where the select delivered the row of an item
ScanPosition(item) ==
    CHOOSE k \in DOMAIN ops_out.scan : ops_out.scan[k] = item.equipment_id

\* C22: predict_maintenance_needs returns exactly the equipment whose
\* prediction has needs_maintenance, each once, ordered by priority
\* descending, items of equal priority in the order they were read; so the
\* list is determined by the rows read.
C22_MaintenanceNeededSortedStable ==
    PredictedAll
    => LET needed == ops_out.maintenance_needed
       IN /\ {needed[k].equipment_id : k \in DOMAIN needed}
                = {id \in DOMAIN ops_equipment :
                      predict_equipment_maintenance(ops_equipment[id], ops_out.at)
                          .needs_maintenance}
          /\ Len(needed) = Cardinality({needed[k].equipment_id : k \in DOMAIN needed})
          /\ \A k \in DOMAIN needed :
                needed[k].prediction
                   = predict_equipment_maintenance(
                         ops_equipment[needed[k].equipment_id], ops_out.at)
          /\ \A j, k \in DOMAIN needed :
                j < k => \/ needed[j].priority > needed[k].priority
                         \/ /\ needed[j].priority = needed[k].priority
                            /\ ScanPosition(needed[j]) < ScanPosition(needed[k])

\* three rows were read, the last with the highest priority and the first
\* two tied: the last came first, the tied ones kept their order, and the
\* rows were not read in id order
C22_Witness ==
    /\ PredictedAll
    /\ Len(ops_out.scan) = 3
    /\ Len(ops_out.maintenance_needed) = 3
    /\ ops_out.scan[1] > ops_out.scan[2]
    /\ ops_out.maintenance_needed[1].equipment_id = ops_out.scan[3]
    /\ ops_out.maintenance_needed[2].equipment_id = ops_out.scan[1]
    /\ ops_out.maintenance_needed[3].equipment_id = ops_out.scan[2]
    /\ ops_out.maintenance_needed[2].priority = ops_out.maintenance_needed[3].priority

\* C30: maintenance priority is min(1.0, 0.5 x confidence + urgency bonus
\* + category bonus), the category bonus 0.2 for cardio.  The estimate is
\* 7, 14 or 30, so the 0.3 bonus never applies: the urgency bonus is 0.2
\* exactly when usage_count > 1.5 x threshold and 0 otherwise, and the
\* priority never exceeds 0.9.
C30_MaintenancePriority ==
    PredictedAll
    => \A k \in DOMAIN ops_out.maintenance_needed :
          LET item == ops_out.maintenance_needed[k]
              equipment == ops_equipment[item.equipment_id]
              days == item.prediction.estimated_days_until_failure
              stated_bonus == CASE days < 7 -> 300
                                [] days >= 7 /\ days < 14 -> 200
                                [] days >= 14 -> 0
              urgency_bonus ==
                  IF 2 * equipment.total_usage_count > 3 * EQUIPMENT_USAGE_THRESHOLD
                  THEN 200 ELSE 0
              category_bonus == IF equipment.category = "cardio" THEN 200 ELSE 0
              total == 5 * item.prediction.confidence + urgency_bonus + category_bonus
          IN /\ days \in {7, 14, 30}
             /\ stated_bonus = urgency_bonus
             /\ item.priority = (IF total > 1000 THEN 1000 ELSE total)
             /\ item.priority <= 900

\* a cardio machine over 1.5 x threshold with confidence 1.0 got priority 0.9
C30_Witness ==
    /\ PredictedAll
    /\ Len(ops_out.maintenance_needed) = 1
    /\ ops_out.maintenance_needed[1].prediction.confidence = 100
    /\ ops_out.maintenance_needed[1].prediction.estimated_days_until_failure = 7
    /\ ops_out.maintenance_needed[1].category = "cardio"
    /\ ops_out.maintenance_needed[1].priority = 900

\* _calculate_renewal_priority returned in this state
PriorityCalculated == fin_out.op = "_calculate_renewal_priority"

StatedUrgency(days_until_expiry) ==
    CASE days_until_expiry <= 7 -> 40
      [] days_until_expiry > 7 /\ days_until_expiry <= 14 -> 30
      [] days_until_expiry > 14 /\ days_until_expiry <= 21 -> 20
      [] days_until_expiry > 21 -> 0

StatedEngagement(total_check_ins) ==
    CASE total_check_ins > 50 -> 30
      [] total_check_ins <= 50 /\ total_check_ins > 20 -> 20
      [] total_check_ins <= 20 -> 0

\* C23: _calculate_renewal_priority returns min(1.0, urgency + engagement
\* + 0.1), urgency 0.4 / 0.3 / 0.2 / 0 for days_until_expiry <= 7 / <= 14 /
\* <= 21 / more, engagement 0.3 / 0.2 / 0 for total_check_ins > 50 / > 20 /
\* fewer, the 0.1 always added; the result lies in [0, 1] for every input,
\* negative days included.
C23_RenewalPriorityFormula ==
    PriorityCalculated
    => LET total == StatedUrgency(fin_out.days_until_expiry)
                    + StatedEngagement(
                          fin_members[fin_out.member_id].total_check_ins)
                    + 10
       IN /\ fin_out.renewal_priority = (IF total > 100 THEN 100 ELSE total)
          /\ fin_out.renewal_priority >= 0
          /\ fin_out.renewal_priority <= 100

\* a member with more than 50 check-ins whose membership ended a day ago
\* got 0.4 + 0.3 + 0.1
C23_Witness ==
    /\ PriorityCalculated
    /\ fin_out.days_until_expiry = -1
    /\ fin_members[fin_out.member_id].total_check_ins = 51
    /\ fin_out.renewal_priority = 80

\* _generate_renewal_offer returned in this state
OfferGenerated == fin_out.op = "_generate_renewal_offer"

\* what the claim says of one offer made to a member
StatedOffer(offer, total_check_ins) ==
    /\ offer.discount_percentage \in {0, 10, 15}
    /\ offer.final_price <= offer.base_price
    /\ offer.discount_percentage = 10 <=> offer.offer_type = "loyalty_reward"
    /\ offer.discount_percentage = 15 <=> offer.offer_type = "re_engagement"
    /\ offer.discount_percentage = 0 <=> offer.offer_type = "standard_renewal"
    /\ offer.offer_type = "loyalty_reward" <=> total_check_ins > 50
    /\ offer.offer_type = "re_engagement" <=> total_check_ins < 5

\* C24: for every price >= 0 and every total_check_ins the renewal offer
\* has discount_percentage in {0, 10, 15} and final_price <= base_price,
\* and the offer type matches the discount: 10 exactly with loyalty_reward
\* (more than 50 check-ins), 15 exactly with re_engagement (fewer than 5),
\* 0 exactly with standard_renewal.
C24_OfferDiscountMatchesType ==
    /\ OfferGenerated
       => StatedOffer(fin_out.offer,
                      fin_members[fin_out.member_id].total_check_ins)
    /\ \A k \in DOMAIN fin_out.expiring :
          StatedOffer(fin_out.expiring[k].recommended_offer,
                      fin_members[fin_out.expiring[k].member_id].total_check_ins)

\* a member with 4 check-ins on the 10.07 plan was offered 15% off, 8.56
C24_Witness ==
    /\ OfferGenerated
    /\ fin_members[fin_out.member_id].total_check_ins = 4
    /\ fin_out.offer.base_price = 1007
    /\ fin_out.offer.discount_percentage = 15
    /\ fin_out.offer.final_price = 856
    /\ fin_out.offer.offer_type = "re_engagement"

\* identify_expiring_memberships returned in this state
ExpiringIdentified == fin_out.op = "identify_expiring_memberships"

\* C25: identify_expiring_memberships returns exactly the active members
\* (with a plan) whose membership_end_date lies within [today, today + 30
\* days]; one whose end date is past or absent is not returned; each comes
\* with its priority and offer, sorted by priority descending.
C25_ExpiringWithinWindow ==
    ExpiringIdentified
    => LET expiring == fin_out.expiring
           today == DateOf(fin_out.at)
       IN /\ {expiring[k].member_id : k \in DOMAIN expiring}
                = {id \in DOMAIN fin_members :
                      /\ fin_members[id].membership_plan_id \in DOMAIN fin_plans
                      /\ fin_members[id].membership_status = ACTIVE
                      /\ fin_members[id].membership_end_date # NoTime
                      /\ fin_members[id].membership_end_date >= today
                      /\ fin_members[id].membership_end_date <= today + 30}
          /\ \A j, k \in DOMAIN expiring :
                j < k => expiring[j].renewal_priority >= expiring[k].renewal_priority

\* forecast_revenue returned in this state
Forecast == fin_out.op = "forecast_revenue"

\* the sum over the plans of price x active members on the plan, in cents
RECURSIVE StatedMrr(_)
StatedMrr(plan_ids) ==
    IF plan_ids = {} THEN 0
    ELSE LET p == CHOOSE q \in plan_ids : TRUE
         IN fin_plans[p].price
                * Cardinality({id \in DOMAIN fin_members :
                                  /\ fin_members[id].membership_plan_id = p
                                  /\ fin_members[id].membership_status = ACTIVE})
            + StatedMrr(plan_ids \ {p})

\* C26 as stated: the values forecast_revenue returns rise by equal steps,
\* forecast_60 - forecast_30 = forecast_30 - current_mrr
\* = forecast_90 - forecast_60.
C26_EqualIncrements ==
    Forecast
    => LET f == fin_out.forecast
       IN /\ f.current_mrr = StatedMrr(DOMAIN fin_plans)
          /\ f.forecast_60_days - f.forecast_30_days
                = f.forecast_30_days - f.current_mrr
          /\ f.forecast_90_days - f.forecast_60_days
                = f.forecast_30_days - f.current_mrr

\* x, in hundredths of a cent, rounds to cents
RoundsTo(x, cents) == x - 50 <= cents * 100 /\ cents * 100 <= x + 50

AbsDiff(a, b) == IF a >= b THEN a - b ELSE b - a

\* C26 amended: current_mrr is the sum over the plans of price x active
\* members on the plan; each forecast_N is current_mrr x (1 + 0.05 x N/30)
\* rounded to the cent (linear, not compounding), so the steps between the
\* returned values agree to within one cent.
C26_LinearRoundedToCents ==
    Forecast
    => LET f == fin_out.forecast
           step1 == f.forecast_30_days - f.current_mrr
           step2 == f.forecast_60_days - f.forecast_30_days
           step3 == f.forecast_90_days - f.forecast_60_days
       IN /\ f.current_mrr = StatedMrr(DOMAIN fin_plans)
          /\ RoundsTo(f.current_mrr * 105, f.forecast_30_days)
          /\ RoundsTo(f.current_mrr * 110, f.forecast_60_days)
          /\ RoundsTo(f.current_mrr * 115, f.forecast_90_days)
          /\ AbsDiff(step1, step2) <= 1
          /\ AbsDiff(step2, step3) <= 1
          /\ AbsDiff(step1, step3) <= 1

\* one active member on the 10.07 plan: 10.07, 10.57, 11.08, 11.58
C26_Witness ==
    /\ Forecast
    /\ fin_out.forecast.current_mrr = 1007
    /\ fin_out.forecast.forecast_30_days = 1057
    /\ fin_out.forecast.forecast_60_days = 1108
    /\ fin_out.forecast.forecast_90_days = 1158

\* should_send_occupancy_alert returned in this state
AlertDecided == fac_out.op = "should_send_occupancy_alert"

\* the capacity the claim gives for an hour
StatedCapacity(config, hour) ==
    LET period == CASE hour \in 5..11 -> "morning"
                    [] hour \in 12..16 -> "afternoon"
                    [] hour \in 17..21 -> "evening"
                    [] OTHER -> "night"
    IN IF hour # NoHour /\ period \in DOMAIN config.peak_hours_capacity
       THEN config.peak_hours_capacity[period]
       ELSE config.total_capacity

\* C27: should_send_occupancy_alert is true exactly when occupancy alerts
\* are enabled and current occupancy / capacity for the hour >=
\* occupancy_alert_threshold (90 of 100 at 0.9 alerts, 80 does not);
\* disabled, it is false for every occupancy.  The capacity for an hour is
\* the peak_hours_capacity of its period (5-11 morning, 12-16 afternoon,
\* 17-21 evening, otherwise night), total_capacity when no hour or no
\* value for the period is given.  With a capacity of 0 there is no
\* quotient, and the occupancy counts as 0%.
C27_OccupancyAlertInclusive ==
    /\ fac_out.op = "get_current_capacity"
       => fac_out.capacity = StatedCapacity(fac_out.config, fac_out.hour)
    /\ AlertDecided
       => LET capacity == StatedCapacity(fac_out.config, fac_out.hour)
              threshold == fac_out.config.occupancy_alert_threshold
              occupancy == fac_out.current_occupancy
          IN /\ fac_out.capacity = capacity
             /\ ~fac_out.config.enable_occupancy_alerts => ~fac_out.alert
             /\ capacity > 0
                => (fac_out.alert
                       <=> /\ fac_out.config.enable_occupancy_alerts
                           /\ occupancy * 100 >= threshold * capacity)
             /\ capacity = 0
                => (fac_out.alert
                       <=> fac_out.config.enable_occupancy_alerts /\ threshold = 0)
             /\ (capacity = 100 /\ threshold = 90 /\ occupancy = 90
                    /\ fac_out.config.enable_occupancy_alerts) => fac_out.alert
             /\ (capacity = 100 /\ threshold = 90 /\ occupancy = 80)
                    => ~fac_out.alert

\* 72 people in the morning, capacity 80 for the period, threshold 0.9:
\* exactly at the threshold, and the alert is sent
C27_Witness ==
    /\ AlertDecided
    /\ fac_out.hour = 11
    /\ fac_out.capacity = 80
    /\ fac_out.config.total_capacity = 100
    /\ fac_out.config.occupancy_alert_threshold = 90
    /\ fac_out.current_occupancy = 72
    /\ fac_out.alert

\* the history entries of payment id, oldest first
ChainOf(h, id) ==
    LET OfPayment(entry) == entry.payment_id = id
    IN SelectSeq(h, OfPayment)

\* the entries of payment id form a chain that ends in the row's status
ConsistentChain(h, rows, id) ==
    LET chain == ChainOf(h, id)
    IN /\ chain # <<>>
       /\ chain[Len(chain)].new_status = rows[id].status
       /\ \A k \in 2..Len(chain) :
             chain[k].previous_status = chain[k - 1].new_status

\* C28: when a create_payment, update_payment_status or
\* process_failed_payment call on a payment has completed, the payment's
\* history is a consistent chain: the newest entry's new_status is the
\* payment's status, and every entry's previous_status is the new_status of
\* the entry before it.
C28_HistoryChainConsistent ==
    [][\A r \in Reqs :
          (/\ req[r].op \in {"create_payment", "update_payment_status",
                             "process_failed_payment"}
           /\ req[r].pc = "add_history"
           /\ req'[r].pc = "done"
           /\ req'[r].result = "payment")
          => ConsistentChain(history', payments', req[r].payment_id)]_vars

\* C29: whenever run() returns for a MemberEngagementAgent, OperationsAgent
\* or FinancialAgent, the agent's state agrees with the result: the status
\* is completed exactly when the result has success true and status
\* completed, and failed, with an error in state.errors, exactly when the
\* result has success false, also when execute() caught the failure itself.
C29_StateAgreesWithResult ==
    [][(RunReturns /\ ExecuteCatches(agent_state.agent_type))
       => (/\ agent_state'.status = COMPLETED
                 <=> (/\ agent_run'.result.success = TRUE
                      /\ agent_run'.result.status = COMPLETED)
           /\ agent_state'.status = FAILED
                 <=> agent_run'.result.success = FALSE
           /\ agent_run'.result.success = FALSE
                 => agent_state'.errors # <<>>)]_agentVars

====
